---- MODULE Spec2Model ----
(***************************************************************************)
(* Agent cache, invalidation and streaming executor of app/core/engine.py. *)
(*                                                                         *)
(* One chat turn (execute_agent) runs at a time; the admin layer may       *)
(* commit a configuration update between any two of its await points.      *)
(* Time is the value of time.perf_counter() in clock ticks.  Only          *)
(* differences of clock readings are used by the code, so the clock and    *)
(* the locals of the turn are reset when the next turn starts; the chat    *)
(* message table is likewise restricted to the rows of the current turn.   *)
(*                                                                         *)
(* Further parts, each with a specification of its own: the memory cleanup *)
(* (clean_agent_memory and the admin endpoint in front of it), the tool    *)
(* de-duplication and the wallet provisioning of initialize_agent together *)
(* with the post-actions of the admin layer, get_skills of                 *)
(* skills/cryptocompare, the LLM selection and the skill loaders of one    *)
(* build, agent_executor calls that run concurrently, and the skill-call   *)
(* records of a tools event in both modes of execute_agent (the turns of   *)
(* the first part run with its default, debug=False), the system prompt   *)
(* and the prompt template of a build, the thread ids of agents whose ids  *)
(* overlap, and init_db of intentkit/models/db.py and app/models/db.py.    *)
(***************************************************************************)
EXTENDS Integers, Sequences, FiniteSets, TLC

\* ---------------------------------------------------------------- bounds
MaxVersion == 2      \* configuration versions (updated_at values) per agent
MaxEvents  == 2      \* stream events consumed in one turn
MaxTick    == 1      \* clock ticks one awaited operation may take

Agents == {"a1", "nobody"}

VARIABLES
    db_agents,        \* Agent table: agent id -> row (updated_at)
    chat_messages,    \* ChatMessage rows written by the current turn
    agents,           \* engine.agents: agent id -> compiled graph
    agents_updated,   \* engine.agents_updated: agent id -> updated_at seen
    next_gid,         \* identity of the next graph object create_agent returns
    now,              \* time.perf_counter()
    pc,               \* position of the turn
    cur,              \* message.agent_id
    start,            \* execute_agent: start
    agent_row,        \* agent_executor: agent (result of Agent.get)
    init_row,         \* initialize_agent: agent (result of get_config)
    ex_start,         \* agent_executor: start
    executor,         \* execute_agent: executor
    cold_start_cost,  \* execute_agent: cold_start_cost
    last,             \* execute_agent: last
    cached_tool_step, \* execute_agent: cached_tool_step
    resp,             \* execute_agent: resp
    events,           \* chunks the graph's stream has yielded in this turn
    exc,              \* exception caught by the except clause of the loop
    outcome,          \* how execute_agent ended: "returned" or "raised"
    error             \* the exception execute_agent raised to its caller

VARIABLES
    checkpoint_rows,   \* thread_id column of checkpoints, checkpoint_writes
                       \* and checkpoint_blobs
    agent_skill_data,  \* AgentSkillData rows (agent ids)
    thread_skill_data, \* ThreadSkillData rows (agent id, thread id)
    clean_pc,          \* position of the memory cleanup request
    clean_call         \* its arguments and its result

turn == <<db_agents, chat_messages, agents, agents_updated, next_gid, now, pc,
          cur, start, agent_row, init_row, ex_start, executor, cold_start_cost,
          last, cached_tool_step, resp, events, exc, outcome, error>>

VARIABLES
    agent_model,       \* initialize_agent: agent.model
    agent_skills,      \* the skills agent asks for, in the order they are loaded
    assembled,         \* initialize_agent: tools, as the skill loaders left it
    bound_tools,       \* initialize_agent: tools, as passed to create_agent
    tools_pc           \* position of the tool assembly

VARIABLES
    cdp_wallet_data,   \* AgentData.cdp_wallet_data of the wallet-enabled agent
    provision_count,   \* wallets the provisioning service has created for it
    persist_failures,  \* writes of new wallet material that failed
    wallet_graph,      \* wallet the tools of the cached graph are bound to
    notification,      \* the last agent notification sent to Slack
    task               \* position and locals of each build and post-action

VARIABLES
    skill_cache,       \* skills/cryptocompare: _cache
    skills_pc,         \* position of the get_skills call
    skills_call        \* its arguments and what it returned

VARIABLES
    exec_call,         \* position and locals of each agent_executor call
    debug              \* execute_agent: its debug argument

VARIABLES
    prompt_agent,      \* initialize_agent: the agent, config.system_prompt
    prompt,            \* initialize_agent: prompt
    prompt_array,      \* initialize_agent: prompt_array
    prompt_pc          \* position of the build of the prompt template

VARIABLES
    thread_turns       \* the (agent_id, chat_id) pairs that have had a turn

VARIABLES
    engine,            \* intentkit/models/db.py: engine
    langgraph_checkpointer,  \* intentkit/models/db.py: _langgraph_checkpointer
    init_call,         \* position, arguments and outcome of the init_db call
    app_db             \* app/models/db.py: conn_str, engine, conn; its init_db

memory == <<checkpoint_rows, agent_skill_data, thread_skill_data>>
clean  == <<memory, clean_pc, clean_call>>

\* what a step of a chat turn or of the admin CRUD layer leaves alone
assembly == <<agent_model, agent_skills, assembled, bound_tools, tools_pc>>

wallet == <<cdp_wallet_data, provision_count, persist_failures, wallet_graph, notification,
            task>>

skills == <<skill_cache, skills_pc, skills_call>>

prompts == <<prompt_agent, prompt, prompt_array, prompt_pc>>

database == <<engine, langgraph_checkpointer, init_call, app_db>>

setup == <<prompts, thread_turns, database>>

invocations == <<exec_call, debug, setup>>

ext  == <<clean, assembly, wallet, skills, invocations>>
vars == <<turn, ext>>

cache  == <<agents, agents_updated, next_gid>>
locals == <<cur, start, agent_row, init_row, ex_start, executor,
            cold_start_cost, last, cached_tool_step, resp, events, exc>>

\* ------------------------------------------------------------ data model
NoRow   == [exists |-> FALSE, updated_at |-> 0]
Row(v)  == [exists |-> TRUE, updated_at |-> v]
NoGraph == [gid |-> 0, built_from |-> 0]
NoStamp == [has |-> FALSE, ts |-> 0]
Stamp(v) == [has |-> TRUE, ts |-> v]
NoStep  == [held |-> FALSE, tool_calls |-> <<>>]

Call(i, n) == [id |-> i, name |-> n, args |-> "args"]

AiMsg(calls, text) ==
    [tool_calls |-> calls, content |-> text, tool_call_id |-> 0, status |-> ""]

\* the content of a tool message is a sequence of runs of characters: words
\* (no white space, no hyphen) of n characters and white space of n characters
Run(k, n) == [kind |-> k, n |-> n]

ToolMsg(i, st) ==
    [tool_calls |-> <<>>, content |-> <<Run("word", 6)>>, tool_call_id |-> i,
     status |-> st]

AgentChunk(msgs) == [node |-> "agent", messages |-> msgs]
ToolsChunk(msgs) == [node |-> "tools", messages |-> msgs]

Chunks ==
    { AgentChunk(<<AiMsg(<<>>, "hello")>>),
      AgentChunk(<<AiMsg(<<Call(1, "n1"), Call(2, "n2")>>, "thinking")>>),
      AgentChunk(<<AiMsg(<<>>, "")>>),
      AgentChunk(<<>>),
      ToolsChunk(<<ToolMsg(1, "success"), ToolMsg(2, "error")>>),
      ToolsChunk(<<ToolMsg(3, "success")>>),
      [node |-> "memory_manager", messages |-> <<>>],
      [node |-> "other", messages |-> <<>>] }

Ticks     == 0..MaxTick
RoundTrip == 1..MaxTick     \* a database round trip takes measurable time

\* ------------------------------------------------------- agent_executor
InCache(aid) == agents[aid] # NoGraph

needs_reinit_always(aid, updated_at) == agents[aid] # NoGraph

needs_reinit_never(aid, updated_at) == FALSE

needs_reinit(aid, updated_at) ==
    /\ InCache(aid)
    /\ \/ ~agents_updated[aid].has
       \/ updated_at # agents_updated[aid].ts

NotFound_unchecked(row) == FALSE

\* if not agent: raise HTTPException(status_code=404, ...)
NotFound(row) == ~row.exists

MustInitialize(aid, updated_at) ==
    ~InCache(aid) \/ needs_reinit(aid, updated_at)

TurnInit ==
    /\ db_agents = [a \in Agents |-> IF a = "a1" THEN Row(1) ELSE NoRow]
    /\ chat_messages = <<>>
    /\ agents = [a \in Agents |-> NoGraph]
    /\ agents_updated = [a \in Agents |-> NoStamp]
    /\ next_gid = 1
    /\ now = 0
    /\ pc = "idle"
    /\ cur = "a1"
    /\ start = 0
    /\ agent_row = NoRow
    /\ init_row = NoRow
    /\ ex_start = 0
    /\ executor = NoGraph
    /\ cold_start_cost = 0
    /\ last = 0
    /\ cached_tool_step = NoStep
    /\ resp = <<>>
    /\ events = <<>>
    /\ exc = ""
    /\ outcome = ""
    /\ error = ""

\* --------------------------------------------------------- ChatMessage
ChatMsg(i, author, text, calls, cost) ==
    [id |-> i, author_type |-> author, message |-> text, skill_calls |-> calls,
     time_cost |-> cost, cold_start_cost |-> 0]

\* str(XID()): a fresh identity for every ChatMessage of the turn
\* (the inbound message holds identity 1)
NewId == Len(resp) + 2

\* message texts are sequences of the parts the code concatenates
InboundMessage == ChatMsg(1, "USER", <<"input">>, <<>>, 0)

InitialLast_turn_start(t0, cold) == t0

\* last = start + cold_start_cost
InitialLast(t0, cold) == t0 + cold

\* time_cost=this_time - last
TimeCost(this_time, prev) == this_time - prev

\* if cold_start_cost > 0: chat_message.cold_start_cost = cold_start_cost
WithColdStart(m, cold) ==
    IF cold > 0 THEN [m EXCEPT !.cold_start_cost = cold] ELSE m

ColdStartLeft_kept(cold) == cold

\* cold_start_cost = 0 once it has been attached
ColdStartLeft(cold) == IF cold > 0 THEN 0 ELSE cold

\* ------------------------------------------------------ tool responses
MaxWords == 2         \* words of a tool response

\* responses of up to MaxWords words of some lengths around the width, with
\* one or two blanks between words
Texts ==
    UNION {{t \in [1..(2 * k - 1) -> {Run("word", n) : n \in {3, 50, 100, 500}}
                                      \cup {Run("space", n) : n \in {1, 2}}] :
               \A i \in DOMAIN t :
                   t[i].kind = (IF i % 2 = 1 THEN "word" ELSE "space")} :
              k \in 1..MaxWords} \cup {<<>>}

\* tool-call messages: one request, two requests, two requests under one id
BatchChunks ==
    {AgentChunk(<<AiMsg(calls, "")>>) :
        calls \in {<<Call(1, "n1")>>, <<Call(1, "n1"), Call(2, "n2")>>,
                   <<Call(1, "n1"), Call(1, "n2")>>}}

\* tools events: one result with any response, or two results
ResultChunks ==
    {ToolsChunk(<<[ToolMsg(i, st) EXCEPT !.content = t]>>) :
        i \in 1..3, st \in {"success", "error"}, t \in Texts}
    \cup {ToolsChunk(<<ToolMsg(m[1], m[2]), ToolMsg(m[3], m[4])>>) :
             m \in (1..3) \X {"success", "error"} \X (1..3) \X {"success", "error"}}

\* ------------------------------------------------------ textwrap.shorten
Width == 100          \* width=100
PlaceholderLen == 3   \* placeholder="..."

RECURSIVE TextLen(_)
TextLen(text) ==
    IF text = <<>> THEN 0 ELSE Head(text).n + TextLen(Tail(text))

RECURSIVE Normalize(_)

\* ' '.join(text.strip().split()): the words, one blank between two of them
Normalize(text) ==
    IF text = <<>> THEN <<>>
    ELSE IF Head(text).kind # "word" THEN Normalize(Tail(text))
    ELSE LET rest == Normalize(Tail(text))
         IN IF rest = <<>> THEN <<Head(text)>>
            ELSE <<Head(text), Run("space", 1)>> \o rest

\* textwrap.shorten(text, width, placeholder): the normalized text when it
\* fits in width; else as many of its first words as fit in width together
\* with the placeholder, no word cut, followed by the placeholder (a word
\* longer than width is first cut to fill the line and then dropped again
\* to make room for the placeholder)
Shorten(text, width, placeholder) ==
    LET t == Normalize(text)
        fits == {k \in 0..(Len(t) \div 2) :
                    k = 0 \/ TextLen(SubSeq(t, 1, 2 * k - 1))
                                + TextLen(placeholder) <= width}
        k == CHOOSE j \in fits : \A i \in fits : i <= j
    IN IF TextLen(t) <= width THEN t
       ELSE (IF k = 0 THEN <<>> ELSE SubSeq(t, 1, 2 * k - 1)) \o placeholder

\* skill_call["response"]
Response(content, dbg) ==
    IF dbg THEN content
    ELSE Shorten(content, Width, <<Run("placeholder", PlaceholderLen)>>)

\* the calls of the held batch answered by one tools message: first match
MatchingCalls(calls, msg) ==
    SelectSeq(calls, LAMBDA c : c.id = msg.tool_call_id)

SkillCall_always_success(call, msg) ==
    [name |-> call.name, parameters |-> call.args, success |-> TRUE,
     response |-> Response(msg.content, debug)]

SkillCall(call, msg) ==
    IF msg.status = "error"
    THEN [name |-> call.name, parameters |-> call.args, success |-> FALSE,
          error_message |-> msg.content]
    ELSE [name |-> call.name, parameters |-> call.args, success |-> TRUE,
          response |-> Response(msg.content, debug)]

RECURSIVE SkillCalls(_, _)
SkillCalls(msgs, calls) ==
    IF msgs = <<>> THEN <<>>
    ELSE LET m == Head(msgs)
             hit == MatchingCalls(calls, m)
         IN (IF hit = <<>> THEN <<>> ELSE <<SkillCall(Head(hit), m)>>)
            \o SkillCalls(Tail(msgs), calls)

AgentMessage(msg, this_time) ==
    ChatMsg(NewId, "AGENT", <<msg.content>>, <<>>, TimeCost(this_time, last))

SkillMessage(msgs, this_time) ==
    ChatMsg(NewId, "SKILL", <<>>, SkillCalls(msgs, cached_tool_step.tool_calls),
            TimeCost(this_time, last))

\* f"Error in agent:\n  {str(e)}"
ErrorText(e) == <<"Error in agent:", e>>

ErrorMessage_since_last(e, t) ==
    ChatMsg(NewId, "SYSTEM", ErrorText(e), <<>>, t - last)

ErrorMessage(e, t) ==
    ChatMsg(NewId, "SYSTEM", ErrorText(e), <<>>, t - start)

\* -------------------------------------------- concurrent agent_executor
Callers == {"c1", "c2", "c3"}  \* tasks that each call agent_executor("a1") once

\* read: agent.updated_at of the call; graph: the graph it returned
NotCalled == [pc |-> "ready", read |-> 0, config |-> NoRow, graph |-> NoGraph]

CallInit == exec_call = [c \in Callers |-> NotCalled]

\* agent = await Agent.get(agent_id); the test of the cache follows at once
ExecutorCall(c) ==
    /\ exec_call[c].pc = "ready"
    /\ exec_call' = [exec_call EXCEPT ![c] =
          IF MustInitialize("a1", db_agents["a1"].updated_at)
          THEN [@ EXCEPT !.pc = "get_config",
                         !.read = db_agents["a1"].updated_at]
          ELSE [@ EXCEPT !.pc = "returned",
                         !.read = db_agents["a1"].updated_at,
                         !.graph = agents["a1"]]]
    /\ UNCHANGED <<turn, clean, assembly, wallet, skills, debug, setup>>

\* agent = await agent_store.get_config(), or the database fails
ExecutorLoad(c) ==
    /\ exec_call[c].pc = "get_config"
    /\ \/ exec_call' = [exec_call EXCEPT ![c].pc = "get_data",
                                       ![c].config = db_agents["a1"]]
       \/ exec_call' = [exec_call EXCEPT ![c].pc = "raised"]
    /\ UNCHANGED <<turn, clean, assembly, wallet, skills, debug, setup>>

\* agent_data = await agent_store.get_data();
\* agents_updated[aid] = agent.updated_at
ExecutorStamp(c) ==
    /\ exec_call[c].pc = "get_data"
    /\ \/ /\ agents_updated' = [agents_updated EXCEPT
                                   !["a1"] = Stamp(exec_call[c].config.updated_at)]
          /\ exec_call' = [exec_call EXCEPT ![c].pc = "build"]
       \/ /\ exec_call' = [exec_call EXCEPT ![c].pc = "raised"]
          /\ UNCHANGED agents_updated
    /\ UNCHANGED <<db_agents, chat_messages, agents, next_gid, now, pc, locals,
                   outcome, error, clean, assembly, wallet, skills, debug, setup>>

\* the tools are assembled, with awaits on the way, and
\* agents[aid] = create_agent(...); or the build raises
ExecutorBuild(c) ==
    /\ exec_call[c].pc = "build"
    /\ \/ /\ agents' = [agents EXCEPT !["a1"] =
                  [gid |-> next_gid, built_from |-> exec_call[c].config.updated_at]]
          /\ next_gid' = next_gid + 1
          /\ exec_call' = [exec_call EXCEPT ![c].pc = "returned",
                                            ![c].graph = agents'["a1"]]
       \/ /\ exec_call' = [exec_call EXCEPT ![c].pc = "raised"]
          /\ UNCHANGED <<agents, next_gid>>
    /\ UNCHANGED <<db_agents, chat_messages, agents_updated, now, pc, locals,
                   outcome, error, clean, assembly, wallet, skills, debug, setup>>

\* ------------------------------------------------------------ admin layer
\* create_or_update: a persisted mutation of an agent gives it a new updated_at
UpdateAgent(a) ==
    /\ UNCHANGED ext
    /\ db_agents[a].exists
    /\ db_agents[a].updated_at < MaxVersion
    /\ db_agents' = [db_agents EXCEPT ![a] = Row(db_agents[a].updated_at + 1)]
    /\ UNCHANGED <<chat_messages, cache, now, pc, locals, outcome, error>>

\* ---------------------------------------------------------- execute_agent
Raise(e) ==
    /\ pc' = "done"
    /\ outcome' = "raised"
    /\ error' = e

\* await message.save(); start = time.perf_counter()
StartTurn ==
    /\ UNCHANGED ext
    /\ pc = "idle"
    /\ \E a \in Agents, ok \in BOOLEAN :
        /\ cur' = a
        /\ IF ok
           THEN /\ chat_messages' = <<InboundMessage>>
                /\ start' = now
                /\ pc' = "agent_executor"
                /\ UNCHANGED <<outcome, error>>
           ELSE /\ Raise("SaveError")
                /\ UNCHANGED <<chat_messages, start>>
    /\ UNCHANGED <<db_agents, cache, now, agent_row, init_row, ex_start,
                   executor, cold_start_cost, last, cached_tool_step, resp,
                   events, exc>>

\* agent_executor up to the call of initialize_agent, or its return without one
AgentExecutor ==
    /\ UNCHANGED ext
    /\ pc = "agent_executor"
    /\ \E d \in RoundTrip :
        /\ now' = now + d
        /\ ex_start' = now
        /\ agent_row' = db_agents[cur]
        /\ IF NotFound(db_agents[cur])
           THEN /\ Raise("404")
                /\ UNCHANGED <<executor, cold_start_cost, last>>
           ELSE IF MustInitialize(cur, db_agents[cur].updated_at)
           THEN /\ pc' = "initialize_agent"
                /\ UNCHANGED <<executor, cold_start_cost, last, outcome, error>>
           ELSE /\ executor' = agents[cur]
                /\ cold_start_cost' = 0
                /\ last' = InitialLast(start, 0)
                /\ pc' = "stream"
                /\ UNCHANGED <<outcome, error>>
    /\ UNCHANGED <<db_agents, chat_messages, cache, cur, start, init_row,
                   cached_tool_step, resp, events, exc>>

\* initialize_agent: load the configuration and record its updated_at
InitializeAgentLoad ==
    /\ UNCHANGED ext
    /\ pc = "initialize_agent"
    /\ \E d \in RoundTrip :
        /\ now' = now + d
        /\ IF ~db_agents[cur].exists
           THEN /\ Raise("404")
                /\ UNCHANGED <<init_row, agents_updated>>
           ELSE /\ init_row' = db_agents[cur]
                /\ agents_updated' = [agents_updated EXCEPT
                      ![cur] = Stamp(db_agents[cur].updated_at)]
                /\ pc' = "build"
                /\ UNCHANGED <<outcome, error>>
    /\ UNCHANGED <<db_agents, chat_messages, agents, next_gid, cur, start,
                   agent_row, ex_start, executor, cold_start_cost, last,
                   cached_tool_step, resp, events, exc>>

\* cold_start_cost = time.perf_counter() - start
ColdStartCost(t, t0) == t - t0

\* initialize_agent: assemble the tools and cache the graph, or fail on the way;
\* then agent_executor returns agents[agent_id] and the cold start cost
\* (the time the assembly takes is counted in the round trip before it)
InitializeAgentBuild ==
    /\ UNCHANGED ext
    /\ pc = "build"
    /\ \E ok \in BOOLEAN :
        /\ IF ok
           THEN /\ agents' = [agents EXCEPT ![cur] =
                      [gid |-> next_gid, built_from |-> init_row.updated_at]]
                /\ next_gid' = next_gid + 1
                /\ executor' = agents'[cur]
                /\ cold_start_cost' = ColdStartCost(now, ex_start)
                /\ last' = InitialLast(start, cold_start_cost')
                /\ pc' = "stream"
                /\ UNCHANGED <<outcome, error>>
           ELSE /\ Raise("BuildError")
                /\ UNCHANGED <<agents, next_gid, executor, cold_start_cost, last>>
    /\ UNCHANGED <<db_agents, chat_messages, agents_updated, now, cur, start,
                   agent_row, init_row, ex_start, cached_tool_step, resp,
                   events, exc>>

\* one iteration of the loop over executor.astream, up to the save of the
\* message it emits
Emit(m, this_time) ==
    /\ resp' = Append(resp, WithColdStart(m, cold_start_cost))
    /\ cold_start_cost' = ColdStartLeft(cold_start_cost)
    /\ last' = this_time
    /\ pc' = "save"
    /\ UNCHANGED exc

Skip ==
    /\ pc' = "stream"
    /\ UNCHANGED <<resp, cold_start_cost, last, exc>>

OnAgentChunk_content_first(chunk, this_time) ==
    IF Len(chunk.messages) = 0
    THEN /\ pc' = "except"
         /\ exc' = "IndexError"
         /\ UNCHANGED <<resp, cold_start_cost, last, cached_tool_step>>
    ELSE LET msg == chunk.messages[1] IN
         IF msg.content # ""
         THEN /\ Emit(AgentMessage(msg, this_time), this_time)
              /\ UNCHANGED cached_tool_step
         ELSE IF msg.tool_calls # <<>>
         THEN /\ cached_tool_step' = [held |-> TRUE, tool_calls |-> msg.tool_calls]
              /\ Skip
         ELSE /\ Skip
              /\ UNCHANGED cached_tool_step

OnAgentChunk(chunk, this_time) ==
    IF Len(chunk.messages) = 0
    THEN /\ pc' = "except"
         /\ exc' = "IndexError"
         /\ UNCHANGED <<resp, cold_start_cost, last, cached_tool_step>>
    ELSE LET msg == chunk.messages[1] IN
         IF msg.tool_calls # <<>>
         THEN /\ cached_tool_step' = [held |-> TRUE, tool_calls |-> msg.tool_calls]
              /\ Skip
         ELSE IF msg.content # ""
         THEN /\ Emit(AgentMessage(msg, this_time), this_time)
              /\ UNCHANGED cached_tool_step
         ELSE /\ Skip
              /\ UNCHANGED cached_tool_step

OnToolsChunk_unchecked(chunk, this_time) ==
    /\ Emit(SkillMessage(chunk.messages, this_time), this_time)
    /\ cached_tool_step' = NoStep

OnToolsChunk_keeps_batch(chunk, this_time) ==
    IF ~cached_tool_step.held
    THEN /\ Skip
         /\ UNCHANGED cached_tool_step
    ELSE /\ Emit(SkillMessage(chunk.messages, this_time), this_time)
         /\ UNCHANGED cached_tool_step

\* if not cached_tool_step: log and continue; else one SKILL message for
\* the event, cached_tool_step = None
OnToolsChunk(chunk, this_time) ==
    IF ~cached_tool_step.held
    THEN /\ Skip
         /\ UNCHANGED cached_tool_step
    ELSE /\ Emit(SkillMessage(chunk.messages, this_time), this_time)
         /\ cached_tool_step' = NoStep

Stream(chunks) ==
    /\ UNCHANGED ext
    /\ pc = "stream"
    /\ Len(events) < MaxEvents
    /\ \E chunk \in chunks, d \in Ticks :
        /\ now' = now + d
        /\ events' = Append(events, chunk)
        /\ IF chunk.node = "agent" THEN OnAgentChunk(chunk, now')
           ELSE IF chunk.node = "tools" THEN OnToolsChunk(chunk, now')
           ELSE /\ Skip
                /\ UNCHANGED cached_tool_step
    /\ UNCHANGED <<db_agents, chat_messages, cache, cur, start, agent_row,
                   init_row, ex_start, executor, outcome, error>>

\* the graph yields one of the events of the turn model
StreamNext == Stream(Chunks)

\* await chat_message.save() / await skill_message.save()
SaveMessage ==
    /\ UNCHANGED ext
    /\ pc = "save"
    /\ \E ok \in BOOLEAN :
        IF ok
        THEN /\ chat_messages' = Append(chat_messages, resp[Len(resp)])
             /\ pc' = "stream"
             /\ UNCHANGED exc
        ELSE /\ pc' = "except"
             /\ exc' = "SaveError"
             /\ UNCHANGED chat_messages
    /\ UNCHANGED <<db_agents, cache, now, cur, start, agent_row, init_row,
                   ex_start, executor, cold_start_cost, last, cached_tool_step,
                   resp, events, outcome, error>>

\* except Exception as e: save the SYSTEM message, append it, return resp
ExceptHandler ==
    /\ UNCHANGED ext
    /\ pc = "except"
    /\ \E d \in Ticks, ok \in BOOLEAN :
        /\ now' = now + d
        /\ IF ok
           THEN /\ chat_messages' = Append(chat_messages, ErrorMessage(exc, now'))
                /\ resp' = Append(resp, ErrorMessage(exc, now'))
                /\ pc' = "done"
                /\ outcome' = "returned"
                /\ UNCHANGED error
           ELSE /\ Raise("SaveError")
                /\ UNCHANGED <<chat_messages, resp>>
    /\ UNCHANGED <<db_agents, cache, cur, start, agent_row, init_row, ex_start,
                   executor, cold_start_cost, last, cached_tool_step, events, exc>>

\* the stream is exhausted: return resp
StreamEnd ==
    /\ UNCHANGED ext
    /\ pc = "stream"
    /\ pc' = "done"
    /\ outcome' = "returned"
    /\ UNCHANGED <<db_agents, chat_messages, cache, now, locals, error>>

\* executor.astream raises while it produces the next chunk: the async for
\* statement is outside the try block, so the exception leaves execute_agent
StreamFail ==
    /\ UNCHANGED ext
    /\ pc = "stream"
    /\ Raise("StreamError")
    /\ UNCHANGED <<db_agents, chat_messages, cache, now, locals>>

\* the caller has its answer; the next turn starts from fresh locals
NextTurn ==
    /\ UNCHANGED ext
    /\ pc = "done"
    /\ pc' = "idle"
    /\ chat_messages' = <<>>
    /\ now' = 0
    /\ cur' = "a1"
    /\ start' = 0
    /\ agent_row' = NoRow
    /\ init_row' = NoRow
    /\ ex_start' = 0
    /\ executor' = NoGraph
    /\ cold_start_cost' = 0
    /\ last' = 0
    /\ cached_tool_step' = NoStep
    /\ resp' = <<>>
    /\ events' = <<>>
    /\ exc' = ""
    /\ outcome' = ""
    /\ error' = ""
    /\ UNCHANGED <<db_agents, cache>>

\* ------------------------------------------------------ persisted memory
\* Texts that the code takes apart (strip, LIKE) are sequences of characters.
IdText(a) ==
    CASE a = "a1" -> <<"a", "1">>
      [] a = "nobody" -> <<"n", "o", "b", "o", "d", "y">>
      [] a = " " -> <<" ">>
      [] OTHER -> <<>>

Chats == {<<"t", "1">>, <<"t", "_">>}

\* thread_id = f"{message.agent_id}-{message.chat_id}"
ThreadKey(a, c) == IdText(a) \o <<"-">> \o c

CheckpointTables == {"checkpoints", "checkpoint_writes", "checkpoint_blobs"}

ThreadSkillRow(a, t) == [agent_id |-> a, thread_id |-> t]

\* the checkpointer of the graph stores the state of a run under its thread_id
SaveCheckpoint(a, c) ==
    /\ UNCHANGED turn
    /\ clean_pc = "idle"
    /\ db_agents[a].exists
    /\ ThreadKey(a, c) \notin checkpoint_rows["checkpoints"]
    /\ checkpoint_rows' =
          [t \in CheckpointTables |-> checkpoint_rows[t] \cup {ThreadKey(a, c)}]
    /\ UNCHANGED <<agent_skill_data, thread_skill_data, clean_pc, clean_call>>
    /\ UNCHANGED <<assembly, wallet, skills, invocations>>

\* a skill stores agent-scoped and thread-scoped data through the skill store
SaveSkillData(a, c) ==
    /\ UNCHANGED turn
    /\ clean_pc = "idle"
    /\ db_agents[a].exists
    /\ ThreadSkillRow(a, c) \notin thread_skill_data
    /\ agent_skill_data' = agent_skill_data \cup {a}
    /\ thread_skill_data' = thread_skill_data \cup {ThreadSkillRow(a, c)}
    /\ UNCHANGED <<checkpoint_rows, clean_pc, clean_call>>
    /\ UNCHANGED <<assembly, wallet, skills, invocations>>

\* ---------------------------------------------------- clean_agent_memory
RECURSIVE LStrip(_), RStrip(_), Like(_, _)

LStrip(s) == IF s # <<>> /\ Head(s) = " " THEN LStrip(Tail(s)) ELSE s

RStrip(s) ==
    IF s # <<>> /\ s[Len(s)] = " " THEN RStrip(SubSeq(s, 1, Len(s) - 1)) ELSE s

\* str.strip()
Strip(s) == RStrip(LStrip(s))

\* SQL: s like p ("%" matches any text, "_" any one character)
Like(s, p) ==
    IF p = <<>> THEN s = <<>>
    ELSE IF Head(p) = "%"
    THEN Like(s, Tail(p)) \/ (s # <<>> /\ Like(Tail(s), p))
    ELSE /\ s # <<>>
         /\ Head(p) = "_" \/ Head(p) = Head(s)
         /\ Like(Tail(s), Tail(p))

QSuffix_unstripped(thread_id) ==
    IF thread_id # <<>> THEN thread_id ELSE <<"%">>

\* thread_id = thread_id.strip(); q_suffix = "%" unless thread_id is not empty
QSuffix(thread_id) ==
    IF Strip(thread_id) # <<>> THEN Strip(thread_id) ELSE <<"%">>

\* deletion_param = {"value": agent_id + "-" + q_suffix}
DeletionParam(agent_id, thread_id) ==
    IdText(agent_id) \o <<"-">> \o QSuffix(thread_id)

\* DELETE FROM <table> WHERE thread_id like :value
DeleteLike(rows, value) == {r \in rows : ~Like(r, value)}

\* AgentSkillData.clean_data(agent_id)
AgentSkillDataClean(rows, agent_id) == rows \ {agent_id}

\* ThreadSkillData.clean_data(agent_id, thread_id)
ThreadSkillDataClean(rows, agent_id, thread_id) ==
    {r \in rows : ~(/\ r.agent_id = agent_id
                    /\ thread_id = <<>> \/ r.thread_id = thread_id)}

ThreadIds == {<<>>, <<" ">>, <<" ", "t", "1">>} \cup Chats

NothingToClean_unchecked(call) == FALSE

\* if not clean_skills_memory and not clean_agent_memory
NothingToClean(call) ==
    ~call.clean_skills_memory /\ ~call.clean_agent_memory

\* the statement of the call at which the database raises SQLAlchemyError
Faults(call) ==
    {"none"}
      \cup (IF call.clean_skills_memory
            THEN {"agent_skill_data", "thread_skill_data"} ELSE {})
      \cup (IF call.clean_agent_memory THEN CheckpointTables ELSE {})
      \cup (IF NothingToClean(call) THEN {} ELSE {"commit"})

NoCall ==
    [agent_id |-> "", thread_id |-> <<>>, clean_agent_memory |-> FALSE,
     clean_skills_memory |-> FALSE, fault |-> "none", result |-> "",
     status |-> ""]

CleanCall(a, t, ca, cs, f) ==
    [agent_id |-> a, thread_id |-> t, clean_agent_memory |-> ca,
     clean_skills_memory |-> cs, fault |-> f, result |-> "", status |-> ""]

\* each clean_data opens a session of its own and commits it
AgentSkillCleaned(call) ==
    /\ ~NothingToClean(call)
    /\ call.clean_skills_memory
    /\ call.fault # "agent_skill_data"

ThreadSkillCleaned(call) ==
    /\ AgentSkillCleaned(call)
    /\ call.fault # "thread_skill_data"

\* await db.commit() is reached and succeeds
Committed(call) == ~NothingToClean(call) /\ call.fault = "none"

\* what clean_agent_memory returns ("ok") or the status of the HTTPException
\* it raises
CleanResult(call) ==
    IF NothingToClean(call) THEN "400"
    ELSE IF call.fault = "none" THEN "ok"
    ELSE "500"

\* the rows clean_agent_memory leaves in the database
CleanEffect(call) ==
    /\ agent_skill_data' =
          IF AgentSkillCleaned(call)
          THEN AgentSkillDataClean(agent_skill_data, call.agent_id)
          ELSE agent_skill_data
    /\ thread_skill_data' =
          IF ThreadSkillCleaned(call)
          THEN ThreadSkillDataClean(thread_skill_data, call.agent_id,
                                    call.thread_id)
          ELSE thread_skill_data
    /\ checkpoint_rows' =
          IF Committed(call) /\ call.clean_agent_memory
          THEN [t \in CheckpointTables |->
                   DeleteLike(checkpoint_rows[t],
                              DeletionParam(call.agent_id, call.thread_id))]
          ELSE checkpoint_rows

CleanCalls ==
    {c \in {CleanCall(a, t, ca, cs, f) :
               a \in Agents, t \in ThreadIds, ca \in BOOLEAN, cs \in BOOLEAN,
               f \in {"none", "commit", "agent_skill_data",
                      "thread_skill_data"} \cup CheckpointTables} :
        c.fault \in Faults(c)}

CleanAgentMemory_evicting ==
    /\ clean_pc = "idle"
    /\ pc = "idle"
    /\ \E call \in CleanCalls :
        /\ CleanEffect(call)
        /\ clean_call' = [call EXCEPT !.result = CleanResult(call)]
        /\ agents' = [agents EXCEPT ![call.agent_id] = NoGraph]
    /\ clean_pc' = "done"
    /\ UNCHANGED <<db_agents, chat_messages, agents_updated, next_gid, now, pc,
                   locals, outcome, error, assembly, wallet, skills,
                   invocations>>

\* a call of clean_agent_memory, between two chat turns
CleanAgentMemory ==
    /\ clean_pc = "idle"
    /\ pc = "idle"
    /\ \E call \in CleanCalls :
        /\ CleanEffect(call)
        /\ clean_call' = [call EXCEPT !.result = CleanResult(call)]
    /\ clean_pc' = "done"
    /\ UNCHANGED <<turn, invocations, assembly, wallet, skills>>

\* ------------------------------------------- POST /agent/clean-memory
RequestIds == Agents \cup {"", " "}

\* if not request.agent_id or not request.agent_id.strip()
BlankId(id) == Strip(IdText(id)) = <<>>

\* the except clauses of clean_memory, in their order
ExceptStatus(e) ==
    CASE e = "NoResultFound" -> "404"
      [] e = "SQLAlchemyError" -> "500"
      [] e = "ValueError" -> "400"
      [] OTHER -> "500"

\* the response of clean_memory when clean_agent_memory ended with result r
AfterCleanStatus(r) ==
    IF r = "ok" THEN "204" ELSE ExceptStatus("HTTPException")

CleanMemory ==
    /\ clean_pc = "idle"
    /\ pc = "idle"
    /\ \E id \in RequestIds, t \in ThreadIds, ca \in BOOLEAN, cs \in BOOLEAN :
        \/ /\ BlankId(id)
           /\ clean_call' =
                 [CleanCall(id, t, ca, cs, "none") EXCEPT !.status = "400"]
           /\ UNCHANGED memory
        \/ /\ ~BlankId(id)
           \* Agent.get fails
           /\ clean_call' =
                 [CleanCall(id, t, ca, cs, "agent_get") EXCEPT
                     !.status = ExceptStatus("SQLAlchemyError")]
           /\ UNCHANGED memory
        \/ /\ ~BlankId(id)
           /\ ~db_agents[id].exists
           /\ clean_call' =
                 [CleanCall(id, t, ca, cs, "none") EXCEPT
                     !.status = ExceptStatus("HTTPException")]
           /\ UNCHANGED memory
        \/ /\ ~BlankId(id)
           /\ db_agents[id].exists
           /\ \E f \in Faults(CleanCall(id, t, ca, cs, "none")) :
                LET call == CleanCall(id, t, ca, cs, f) IN
                /\ CleanEffect(call)
                /\ clean_call' =
                      [call EXCEPT !.result = CleanResult(call),
                                   !.status = AfterCleanStatus(CleanResult(call))]
    /\ clean_pc' = "done"
    /\ UNCHANGED <<turn, invocations, assembly, wallet, skills>>

\* the caller has its answer
CleanReturn ==
    /\ clean_pc = "done"
    /\ clean_pc' = "idle"
    /\ clean_call' = NoCall
    /\ UNCHANGED <<turn, invocations, memory, assembly, wallet, skills>>

CleanInit ==
    /\ checkpoint_rows = [t \in CheckpointTables |-> {}]
    /\ agent_skill_data = {}
    /\ thread_skill_data = {}
    /\ clean_pc = "idle"
    /\ clean_call = NoCall

\* ------------------------------------------- initialize_agent: tools
MaxTools == 3        \* tools the skill loaders put into the list

ToolNames == {"n1", "n2", "n3"}
Models == {"gpt-4o-mini", "deepseek-chat"}

\* the i-th tool object put into the list, under the name it carries
Tool(n, i) == [name |-> n, reg |-> i]

ToolLists ==
    UNION {{[i \in 1..k |-> Tool(f[i], i)] : f \in [1..k -> ToolNames]} :
              k \in 0..MaxTools}

EmptyDict == [keys |-> <<>>, val |-> <<>>]

\* position of key n in the dict, 0 when absent
KeyIndex(d, n) ==
    IF \E k \in 1..Len(d.keys) : d.keys[k] = n
    THEN CHOOSE k \in 1..Len(d.keys) : d.keys[k] = n
    ELSE 0

DictSet_keep_first(d, tool) ==
    IF KeyIndex(d, tool.name) # 0
    THEN d
    ELSE [keys |-> Append(d.keys, tool.name), val |-> Append(d.val, tool)]

\* d[tool.name] = tool: a new key goes to the end, a known key keeps its place
DictSet(d, tool) ==
    IF KeyIndex(d, tool.name) # 0
    THEN [d EXCEPT !.val[KeyIndex(d, tool.name)] = tool]
    ELSE [keys |-> Append(d.keys, tool.name), val |-> Append(d.val, tool)]

RECURSIVE DictOf(_, _)

\* {tool.name: tool for tool in tools}, continued from dict d
DictOf(tools, d) ==
    IF tools = <<>> THEN d ELSE DictOf(Tail(tools), DictSet(d, Head(tools)))

\* tools = list({tool.name: tool for tool in tools}.values())
Dedup(tools) == DictOf(tools, EmptyDict).val

\* agent.model.startswith("deepseek")
IsDeepseek(model) == model = "deepseek-chat"

\* the tools create_agent receives
BoundTools(model, tools) == IF IsDeepseek(model) THEN <<>> ELSE Dedup(tools)

BindTools ==
    /\ tools_pc = "assembled"
    /\ bound_tools' = BoundTools(agent_model, assembled)
    /\ tools_pc' = "bound"
    /\ UNCHANGED <<turn, invocations, clean, wallet, skills, agent_model, agent_skills,
                   assembled>>

\* no build is at its tool assembly
AssemblyInit ==
    /\ agent_model = "gpt-4o-mini"
    /\ agent_skills = <<>>
    /\ assembled = <<>>
    /\ bound_tools = <<>>
    /\ tools_pc = "idle"

\* a build whose skill loaders have just filled the list
AssembledInit ==
    /\ agent_model \in Models
    /\ agent_skills = <<>>
    /\ assembled \in ToolLists
    /\ bound_tools = <<>>
    /\ tools_pc = "assembled"

\* ---------------------------------------------------------- skill loading
MaxSkills == 2       \* skills a configuration asks for

\* any string is accepted as agent.model
ModelIds == Models \cup {"no-such-model"}

\* the skill categories, in the order initialize_agent loads them
Categories ==
    <<"enso", "acolyt", "allora", "twitter", "crestal", "common", "skill_sets">>

CategoryIndex(c) == CHOOSE i \in 1..Len(Categories) : Categories[i] = c

\* the categories whose get_*_skill call stands in a try block
Guarded(c) == c \in {"enso", "acolyt", "allora"}

\* the configurations: each skill comes with whether its construction works
SkillConfigs ==
    { q \in UNION {[1..k -> [category : {Categories[i] : i \in 1..Len(Categories)},
                             name : ToolNames,
                             constructs : BOOLEAN]] : k \in 0..MaxSkills} :
        \A i, j \in 1..Len(q) :
            i < j => CategoryIndex(q[i].category) <= CategoryIndex(q[j].category) }

RECURSIVE Load(_, _)

\* the loops over the skill lists, continued with tools loaded so far
Load(todo, tools) ==
    IF todo = <<>> THEN [raised |-> FALSE, tools |-> tools]
    ELSE LET s == Head(todo)
         IN IF s.constructs
            THEN Load(Tail(todo), Append(tools, Tool(s.name, Len(tools) + 1)))
            ELSE IF Guarded(s.category)
            THEN Load(Tail(todo), tools)
            ELSE [raised |-> TRUE, tools |-> tools]

\* llm = ChatOpenAI(model_name=agent.model, ...): no identifier is refused
InitLlm ==
    /\ tools_pc = "llm"
    /\ tools_pc' = "skills"
    /\ UNCHANGED <<turn, invocations, clean, wallet, skills, agent_model, agent_skills,
                   assembled, bound_tools>>

\* the skill loaders fill tools, or one of them raises out of the build
LoadSkills ==
    /\ tools_pc = "skills"
    /\ LET r == Load(agent_skills, <<>>)
       IN IF r.raised
          THEN /\ tools_pc' = "raised"
               /\ UNCHANGED assembled
          ELSE /\ tools_pc' = "assembled"
               /\ assembled' = r.tools
    /\ UNCHANGED <<turn, invocations, clean, wallet, skills, agent_model, agent_skills,
                   bound_tools>>

\* a build that has just loaded the configuration of its agent
BuildInit ==
    /\ agent_model \in ModelIds
    /\ agent_skills \in SkillConfigs
    /\ assembled = <<>>
    /\ bound_tools = <<>>
    /\ tools_pc = "llm"

\* ----------------------------------------------------- wallet provisioning
MaxProvisions == 3   \* wallets the provisioning service hands out

Builds == {"build1", "build2"}     \* initialize_agent calls for the agent
Tasks  == Builds \cup {"admin"}    \* and the post-actions of admin requests

NoWallet  == [has |-> FALSE, id |-> 0]
Wallet(i) == [has |-> TRUE, id |-> i]

\* data: agent_data is not None
TaskAt(l, seen, made) == [pc |-> l, seen |-> seen, made |-> made, data |-> FALSE]
TaskIdle == TaskAt("idle", NoWallet, NoWallet)

\* wallet_data["default_address_id"] of a wallet
Address(w) == <<"0x", w.id>>

\* the address the except clause puts in wallet_data
Unknown == <<"unknown">>

NoNote == [sent |-> FALSE, address |-> <<>>]

\* the Slack message with its "Wallet Address" field
Note(address) == [sent |-> TRUE, address |-> address]

HasWallet_never(data) == FALSE

\* agent_data and agent_data.cdp_wallet_data
HasWallet(data) == data.has

Goto(t, l) == task' = [task EXCEPT ![t].pc = l]

\* the task ends, by a return or by an exception that leaves it
Leave(t) == task' = [task EXCEPT ![t] = TaskIdle]

\* the provisioning service creates a wallet no one has seen before
Provision(t, l) ==
    /\ provision_count < MaxProvisions
    /\ provision_count' = provision_count + 1
    /\ task' = [task EXCEPT ![t].pc = l, ![t].made = Wallet(provision_count + 1)]

Persist_unwritten(t, l_ok, l_failed) ==
    \/ /\ cdp_wallet_data' = task[t].made
       /\ Goto(t, l_ok)
       /\ UNCHANGED persist_failures
    \/ /\ persist_failures' = persist_failures + 1
       /\ Goto(t, l_ok)
       /\ UNCHANGED cdp_wallet_data

\* the material is written, or the write fails
Persist(t, l_ok, l_failed) ==
    \/ /\ cdp_wallet_data' = task[t].made
       /\ Goto(t, l_ok)
       /\ UNCHANGED persist_failures
    \/ /\ persist_failures' = persist_failures + 1
       /\ IF l_failed = "idle" THEN Leave(t) ELSE Goto(t, l_failed)
       /\ UNCHANGED cdp_wallet_data

\* initialize_agent is called
BuildStart(b) ==
    /\ task[b].pc = "idle"
    /\ Goto(b, "get_data")
    /\ UNCHANGED <<turn, invocations, clean, assembly, skills, notification, cdp_wallet_data, provision_count,
                   persist_failures, wallet_graph>>

\* agent_data = await agent_store.get_data()
BuildGetData(b) ==
    /\ task[b].pc = "get_data"
    /\ \/ task' = [task EXCEPT ![b].pc = "agentkit", ![b].seen = cdp_wallet_data]
       \/ Leave(b)
    /\ UNCHANGED <<turn, invocations, clean, assembly, skills, notification, cdp_wallet_data, provision_count,
                   persist_failures, wallet_graph>>

\* agentkit = CdpAgentkitWrapper(**values)
BuildAgentkit(b) ==
    /\ task[b].pc = "agentkit"
    /\ IF HasWallet(task[b].seen)
       THEN /\ Goto(b, "toolkit")
            /\ UNCHANGED provision_count
       ELSE \/ Provision(b, "set_data")
            \/ /\ Leave(b)
               /\ UNCHANGED provision_count
    /\ UNCHANGED <<turn, invocations, clean, assembly, skills, notification, cdp_wallet_data, persist_failures,
                   wallet_graph>>

\* await agent_store.set_data({"cdp_wallet_data": agentkit.export_wallet()})
BuildSetData(b) ==
    /\ task[b].pc = "set_data"
    /\ Persist(b, "toolkit", "idle")
    /\ UNCHANGED <<turn, invocations, clean, assembly, skills, notification, provision_count, wallet_graph>>

\* the toolkit is made from agentkit and the graph with its tools is cached
BuildToolkit(b) ==
    /\ task[b].pc = "toolkit"
    /\ wallet_graph' =
          IF HasWallet(task[b].seen) THEN task[b].seen ELSE task[b].made
    /\ Leave(b)
    /\ UNCHANGED <<turn, invocations, clean, assembly, skills, notification, cdp_wallet_data, provision_count,
                   persist_failures>>

\* _process_agent_post_actions(agent, is_new=False) is called
AdminStart ==
    /\ task["admin"].pc = "idle"
    /\ Goto("admin", "get")
    /\ UNCHANGED <<turn, invocations, clean, assembly, skills, notification, cdp_wallet_data, provision_count,
                   persist_failures, wallet_graph>>

\* agent_data = await AgentData.get(agent.id): the row, or None when the agent
\* has no row yet
AdminGet ==
    /\ task["admin"].pc = "get"
    /\ \/ \E row \in BOOLEAN :
             /\ HasWallet(cdp_wallet_data) => row
             /\ task' = [task EXCEPT !["admin"].pc = "create_account",
                                      !["admin"].seen = cdp_wallet_data,
                                      !["admin"].data = row]
       \/ Leave("admin")
    /\ UNCHANGED <<turn, invocations, clean, assembly, skills, notification, cdp_wallet_data, provision_count,
                   persist_failures, wallet_graph>>

\* if not has_wallet and the cdp skill is enabled: cdp.evm.create_account(),
\* and agent_data is made or updated with the account; the except clause
\* sets the address of wallet_data to "unknown"
AdminCreateAccount ==
    /\ task["admin"].pc = "create_account"
    /\ IF HasWallet(task["admin"].seen)
       THEN /\ Goto("admin", "notify")
            /\ UNCHANGED provision_count
       ELSE \/ /\ provision_count < MaxProvisions
               /\ provision_count' = provision_count + 1
               /\ task' = [task EXCEPT !["admin"].pc = "save",
                                        !["admin"].made = Wallet(provision_count + 1),
                                        !["admin"].data = TRUE]
            \/ /\ Goto("admin", "notify_unknown")
               /\ UNCHANGED provision_count
    /\ UNCHANGED <<turn, invocations, clean, assembly, skills, notification, cdp_wallet_data, persist_failures,
                   wallet_graph>>

\* await agent_data.save(), inside the try block
AdminSave ==
    /\ task["admin"].pc = "save"
    /\ Persist("admin", "notify", "notify_unknown")
    /\ UNCHANGED <<turn, invocations, clean, assembly, skills, notification, provision_count, wallet_graph>>

AdminNotify_reports_made ==
    /\ task["admin"].pc \in {"notify", "notify_unknown"}
    /\ \/ /\ task["admin"].data
          /\ notification' =
                Note(IF HasWallet(task["admin"].seen)
                     THEN Address(task["admin"].seen)
                     ELSE Address(task["admin"].made))
       \/ UNCHANGED notification
    /\ Leave("admin")
    /\ UNCHANGED <<turn, invocations, clean, assembly, skills, cdp_wallet_data, provision_count,
                   persist_failures, wallet_graph>>

\* _send_agent_notification(agent, agent_data, wallet_data, slack_message)
\* inside its try block, and agent_data is returned: the message is built
\* from the fields of agent_data, so it is sent only when agent_data is not
\* None and the send itself does not fail
AdminNotify ==
    /\ task["admin"].pc \in {"notify", "notify_unknown"}
    /\ \/ /\ task["admin"].data
          /\ notification' =
                Note(IF task["admin"].pc = "notify_unknown"
                     THEN Unknown
                     ELSE IF HasWallet(task["admin"].seen)
                          THEN Address(task["admin"].seen)
                          ELSE Address(task["admin"].made))
       \/ UNCHANGED notification
    /\ Leave("admin")
    /\ UNCHANGED <<turn, invocations, clean, assembly, skills, cdp_wallet_data, provision_count,
                   persist_failures, wallet_graph>>

\* no wallet-enabled agent
WalletIdle ==
    /\ cdp_wallet_data = NoWallet
    /\ provision_count = 0
    /\ persist_failures = 0
    /\ wallet_graph = NoWallet
    /\ notification = NoNote
    /\ task = [t \in Tasks |-> TaskIdle]

\* agent.create() has stored a wallet-enabled agent and the create request is
\* about to run _process_agent_post_actions(agent, is_new=True)
WalletInit ==
    /\ cdp_wallet_data = NoWallet
    /\ provision_count = 0
    /\ persist_failures = 0
    /\ wallet_graph = NoWallet
    /\ notification = NoNote
    /\ task = [t \in Tasks |->
                 IF t = "admin"
                 THEN TaskAt("create_account", NoWallet, NoWallet)
                 ELSE TaskIdle]

\* ------------------------------------------- skills/cryptocompare
SkillOrder == <<"fetch_news", "fetch_price", "fetch_top_volume">>
SkillNames == {SkillOrder[i] : i \in 1..Len(SkillOrder)}
SkillStateValues == {"disabled", "private", "public"}
ApiKeys == {"", "k1", "k2"}

NoTool == [name |-> "", api_key |-> ""]

\* the tool object a constructor call with this api_key makes
SkillTool(n, key) == [name |-> n, api_key |-> key]

Visible_unless_disabled(state, is_private) == state # "disabled"

\* the tests of the loop over config["skill_states"].items()
Visible(state, is_private) ==
    /\ state # "disabled"
    /\ state = "public" \/ (state = "private" /\ is_private)

AvailableSkills(states, is_private) ==
    SelectSeq(SkillOrder, LAMBDA n : Visible(states[n], is_private))

\* get_cryptocompare_skill(name, api_key, store): _cache after the call
CacheAfter(c, n, key) ==
    IF c[n] = NoTool THEN [c EXCEPT ![n] = SkillTool(n, key)] ELSE c

RECURSIVE CacheAfterAll(_, _, _)

CacheAfterAll(c, names, key) ==
    IF names = <<>> THEN c
    ELSE CacheAfterAll(CacheAfter(c, Head(names), key), Tail(names), key)

NoSkillsCall ==
    [skill_states |-> [n \in SkillNames |-> "disabled"], is_private |-> FALSE,
     api_key |-> "", outcome |-> "", tools |-> <<>>]

GetSkills ==
    /\ skills_pc = "idle"
    /\ \E states \in [SkillNames -> SkillStateValues], is_private \in BOOLEAN,
          key \in ApiKeys :
        LET available == AvailableSkills(states, is_private)
            call == [skill_states |-> states, is_private |-> is_private,
                     api_key |-> key, outcome |-> "", tools |-> <<>>]
        IN  IF available # <<>> /\ key = ""
            THEN \* if not api_key: raise ValueError
                 /\ skills_call' = [call EXCEPT !.outcome = "ValueError"]
                 /\ UNCHANGED skill_cache
            ELSE /\ skill_cache' = CacheAfterAll(skill_cache, available, key)
                 /\ skills_call' =
                       [call EXCEPT
                           !.outcome = "returned",
                           !.tools = [i \in 1..Len(available) |->
                                         skill_cache'[available[i]]]]
    /\ skills_pc' = "done"
    /\ UNCHANGED <<turn, invocations, clean, assembly, wallet>>

\* the caller has its tools
GetSkillsReturn ==
    /\ skills_pc = "done"
    /\ skills_pc' = "idle"
    /\ skills_call' = NoSkillsCall
    /\ UNCHANGED <<turn, invocations, clean, assembly, wallet, skill_cache>>

SkillsInit ==
    /\ skill_cache = [n \in SkillNames |-> NoTool]
    /\ skills_pc = "idle"
    /\ skills_call = NoSkillsCall

\* ------------------------------------------------------ thread identity
\* agents whose ids hold a hyphen or a LIKE wildcard, next to agent a1
ThreadAgents == {"a1", "a1-t", "a_"}

\* the characters of an agent id
AgentIdText(a) ==
    CASE a = "a1-t" -> <<"a", "1", "-", "t">>
      [] a = "a_" -> <<"a", "_">>
      [] OTHER -> IdText(a)

ThreadChats == {<<"1">>, <<"t", "-", "1">>}

\* thread_id = f"{message.agent_id}-{message.chat_id}"
ThreadId(a, c) == AgentIdText(a) \o <<"-">> \o c

\* a turn of agent a in chat c: the graph runs under thread_id and the
\* checkpointer stores its state in the three tables under that key
ThreadTurn(a, c) ==
    /\ clean_pc = "idle"
    /\ <<a, c>> \notin thread_turns
    /\ thread_turns' = thread_turns \cup {<<a, c>>}
    /\ checkpoint_rows' =
          [t \in CheckpointTables |-> checkpoint_rows[t] \cup {ThreadId(a, c)}]
    /\ UNCHANGED <<turn, agent_skill_data, thread_skill_data, clean_pc, clean_call,
                   assembly, wallet, skills, exec_call, debug, prompts, database>>

\* clean_agent_memory(agent_id, thread_id, clean_agent_memory=True), with
\* every statement succeeding
ThreadClean(a, t) ==
    /\ clean_pc = "idle"
    /\ checkpoint_rows' =
          [x \in CheckpointTables |->
              DeleteLike(checkpoint_rows[x],
                         AgentIdText(a) \o <<"-">> \o QSuffix(t))]
    /\ clean_call' = [CleanCall(a, t, TRUE, FALSE, "none") EXCEPT !.result = "ok"]
    /\ clean_pc' = "done"
    /\ UNCHANGED <<turn, agent_skill_data, thread_skill_data,
                   assembly, wallet, skills, invocations>>

\* no turn yet
ThreadsIdle == thread_turns = {}

\* ---------------------------------------------- intentkit/models/db.py
MaxInitCalls == 3     \* init_db calls of one process

\* host: a database host is given; the other arguments do not matter.
\* n: how many times the process has called init_db with these arguments
NoInitCall(host, auto_migrate) ==
    [pc |-> "idle", host |-> host, auto_migrate |-> auto_migrate,
     result |-> "", n |-> 0]

\* None, and the objects the module globals may hold; made: the call that
\* made the object; ready: setup() or safe_migrate() has run on it
None == [kind |-> "None", made |-> 0, ready |-> FALSE]
Object(kind, n) == [kind |-> kind, made |-> n, ready |-> FALSE]

\* the call ends
InitReturn(r) == init_call' = [init_call EXCEPT !.pc = "idle", !.result = r]

\* init_db(host, ..., auto_migrate) is called, for the first time or again
InitDb ==
    /\ init_call.pc = "idle"
    /\ init_call.n < MaxInitCalls
    /\ init_call' = [init_call EXCEPT !.pc = "checkpointer", !.result = "",
                                      !.n = init_call.n + 1]
    /\ UNCHANGED <<turn, clean, assembly, wallet, skills, exec_call, debug,
                   prompts, thread_turns, engine, langgraph_checkpointer,
                   app_db>>

\* if _langgraph_checkpointer is None: the saver is made and assigned
InitCheckpointer ==
    /\ init_call.pc = "checkpointer"
    /\ IF langgraph_checkpointer = None
       THEN /\ langgraph_checkpointer' =
                  Object(IF init_call.host THEN "AsyncPostgresSaver"
                         ELSE "InMemorySaver", init_call.n)
            /\ init_call' = [init_call EXCEPT !.pc =
                  IF init_call.host /\ init_call.auto_migrate
                  THEN "setup" ELSE "engine"]
       ELSE /\ init_call' = [init_call EXCEPT !.pc = "engine"]
            /\ UNCHANGED langgraph_checkpointer
    /\ UNCHANGED <<turn, clean, assembly, wallet, skills, exec_call, debug,
                   prompts, thread_turns, engine, app_db>>

\* await _langgraph_checkpointer.setup(), which may raise
InitSetup ==
    /\ init_call.pc = "setup"
    /\ \/ /\ langgraph_checkpointer' =
                [langgraph_checkpointer EXCEPT !.ready = TRUE]
          /\ init_call' = [init_call EXCEPT !.pc = "engine"]
       \/ /\ InitReturn("raised")
          /\ UNCHANGED langgraph_checkpointer
    /\ UNCHANGED <<turn, clean, assembly, wallet, skills, exec_call, debug,
                   prompts, thread_turns, engine, app_db>>

\* if engine is None: the engine is made and assigned
InitEngine ==
    /\ init_call.pc = "engine"
    /\ IF engine = None
       THEN /\ engine' = Object(IF init_call.host THEN "postgresql"
                                ELSE "sqlite", init_call.n)
            /\ IF init_call.auto_migrate
               THEN init_call' = [init_call EXCEPT !.pc = "migrate"]
               ELSE InitReturn("ok")
       ELSE /\ InitReturn("ok")
            /\ UNCHANGED engine
    /\ UNCHANGED <<turn, clean, assembly, wallet, skills, exec_call, debug,
                   prompts, thread_turns, langgraph_checkpointer, app_db>>

\* await safe_migrate(engine), which may raise
InitMigrate ==
    /\ init_call.pc = "migrate"
    /\ \/ /\ engine' = [engine EXCEPT !.ready = TRUE]
          /\ InitReturn("ok")
       \/ /\ InitReturn("raised")
          /\ UNCHANGED engine
    /\ UNCHANGED <<turn, clean, assembly, wallet, skills, exec_call, debug,
                   prompts, thread_turns, langgraph_checkpointer, app_db>>

\* app/models/db.py before init_db; n and result: the calls of its init_db
\* and how the last one ended
NoAppDb == [conn_str |-> FALSE, engine |-> None, conn |-> FALSE,
            n |-> 0, result |-> ""]

\* init_db of app/models/db.py, which has no await: conn_str is set, the
\* engine is made, assigned and migrated if there is none, the pool is
\* opened if there is none; safe_migrate and ConnectionPool may raise
AppInitDb ==
    /\ init_call.pc = "idle"
    /\ app_db.n < MaxInitCalls
    /\ LET made == IF app_db.engine = None
                   THEN Object("postgresql", app_db.n + 1)
                   ELSE app_db.engine
           migrates == app_db.engine = None /\ init_call.auto_migrate
           called == [app_db EXCEPT !.conn_str = TRUE, !.n = app_db.n + 1]
       IN  \/ /\ migrates
              /\ app_db' = [called EXCEPT !.engine = made, !.result = "raised"]
           \/ \E ready \in {IF migrates THEN TRUE ELSE made.ready} :
                \/ /\ ~app_db.conn
                   /\ app_db' = [called EXCEPT
                                    !.engine = [made EXCEPT !.ready = ready],
                                    !.result = "raised"]
                \/ app_db' = [called EXCEPT
                                 !.engine = [made EXCEPT !.ready = ready],
                                 !.conn = TRUE, !.result = "ok"]
    /\ UNCHANGED <<turn, clean, assembly, wallet, skills, exec_call, debug,
                   prompts, thread_turns, engine, langgraph_checkpointer,
                   init_call>>

\* the module has been imported and init_db has not been called
DbIdle ==
    /\ app_db = NoAppDb
    /\ engine = None
    /\ langgraph_checkpointer = None
    /\ init_call = NoInitCall(FALSE, FALSE)

\* the arguments the configuration of the process gives to init_db
DbInit ==
    /\ app_db = NoAppDb
    /\ engine = None
    /\ langgraph_checkpointer = None
    /\ \E host \in BOOLEAN, auto_migrate \in BOOLEAN :
          init_call = NoInitCall(host, auto_migrate)

\* ---------------------------------------------------- the system prompt
\* texts are sequences of characters; <<>> is the empty or missing text
PromptTexts == {<<>>, <<"x">>}
BraceTexts == {<<>>, <<"x">>, <<"{", "x", "}">>}

\* one section of the prompt string: what it is and the text it carries
Section(s, text) == [section |-> s, text |-> text]

\* prompt += ... if test
Part(test, s, text) == IF test THEN <<Section(s, text)>> ELSE <<>>

AgentPrompt_guide_with_rules(agent) ==
    <<Section("header", <<>>)>>
    \o Part(agent.system_prompt # <<>>, "system_prompt", agent.system_prompt)
    \o Part(agent.name # <<>>, "name", agent.name)
    \o Part(agent.ticker # <<>>, "ticker", agent.ticker)
    \o <<Section("newline", <<>>)>>
    \o Part(agent.purpose # <<>>, "purpose", agent.purpose)
    \o Part(agent.personality # <<>>, "personality", agent.personality)
    \o Part(agent.principles # <<>>, "principles", agent.principles)
    \o Part(agent.prompt # <<>>, "initial_rules", agent.prompt)
    \o Part(agent.cdp_enabled, "cdp_guide", <<>>)
    \o Part(agent.enso_enabled, "enso_guide", <<>>)
    \o Part(agent.goat_enabled, "goat_guide", <<>>)

\* agent_prompt(agent)
AgentPrompt(agent) ==
    <<Section("header", <<>>)>>
    \o Part(agent.system_prompt # <<>>, "system_prompt", agent.system_prompt)
    \o Part(agent.name # <<>>, "name", agent.name)
    \o Part(agent.ticker # <<>>, "ticker", agent.ticker)
    \o <<Section("newline", <<>>)>>
    \o Part(agent.purpose # <<>>, "purpose", agent.purpose)
    \o Part(agent.personality # <<>>, "personality", agent.personality)
    \o Part(agent.principles # <<>>, "principles", agent.principles)
    \o ( IF agent.prompt # <<>>
         THEN <<Section("initial_rules", agent.prompt)>>
         ELSE Part(agent.cdp_enabled, "cdp_guide", <<>>) )
    \o Part(agent.enso_enabled, "enso_guide", <<>>)
    \o Part(agent.goat_enabled, "goat_guide", <<>>)

\* text.replace("{", "{{").replace("}", "}}")
RECURSIVE Escape(_)
Escape(text) ==
    IF text = <<>> THEN <<>>
    ELSE ( IF Head(text) \in {"{", "}"}
           THEN <<Head(text), Head(text)>>
           ELSE <<Head(text)>> ) \o Escape(Tail(text))

EscapeSections(p) ==
    [i \in 1..Len(p) |-> Section(p[i].section, Escape(p[i].text))]

\* the twitter section, made when the agent has twitter skills
TwitterPrompt(agent) ==
    IF agent.twitter_skills THEN <<Section("twitter", <<>>)>> ELSE <<>>

\* an entry of prompt_array
Message(role, content) == [role |-> role, content |-> content]

\* prompt = agent_prompt(agent); prompt_array = [system, placeholder]
PromptBase ==
    /\ prompt_pc = "prompt"
    /\ prompt' = AgentPrompt(prompt_agent)
    /\ prompt_array' = << Message("system", EscapeSections(prompt')),
                         Message("placeholder", <<>>) >>
    /\ prompt_pc' = "twitter"
    /\ UNCHANGED <<turn, clean, assembly, wallet, skills, exec_call, debug, thread_turns, database, prompt_agent>>

\* if twitter_prompt: appended, and for deepseek left out
PromptTwitter ==
    /\ prompt_pc = "twitter"
    /\ prompt_array' =
          IF TwitterPrompt(prompt_agent) # <<>> /\ ~IsDeepseek(prompt_agent.model)
          THEN Append(prompt_array, Message("system", TwitterPrompt(prompt_agent)))
          ELSE prompt_array
    /\ prompt_pc' = "append"
    /\ UNCHANGED <<turn, clean, assembly, wallet, skills, exec_call, debug, thread_turns, database,
                   prompt_agent, prompt>>

PromptAppend_always_last ==
    /\ prompt_pc = "append"
    /\ prompt_array' =
          IF prompt_agent.prompt_append = <<>> THEN prompt_array
          ELSE Append(prompt_array,
                      Message("system", <<Section("prompt_append",
                                          Escape(prompt_agent.prompt_append))>>))
    /\ prompt_pc' = "done"
    /\ UNCHANGED <<turn, clean, assembly, wallet, skills, exec_call, debug, thread_turns, database,
                   prompt_agent, prompt>>

\* if agent.prompt_append: inserted first for deepseek, appended otherwise
PromptAppend ==
    /\ prompt_pc = "append"
    /\ prompt_array' =
          IF prompt_agent.prompt_append = <<>> THEN prompt_array
          ELSE IF IsDeepseek(prompt_agent.model)
          THEN << Message("system", <<Section("prompt_append",
                                      Escape(prompt_agent.prompt_append))>>) >>
               \o prompt_array
          ELSE Append(prompt_array,
                      Message("system", <<Section("prompt_append",
                                          Escape(prompt_agent.prompt_append))>>))
    /\ prompt_pc' = "done"
    /\ UNCHANGED <<turn, clean, assembly, wallet, skills, exec_call, debug, thread_turns, database,
                   prompt_agent, prompt>>

NoAgent ==
    [model |-> "gpt-4o-mini", system_prompt |-> <<>>, name |-> <<>>,
     ticker |-> <<>>, purpose |-> <<>>, personality |-> <<>>,
     principles |-> <<>>, prompt |-> <<>>, prompt_append |-> <<>>,
     cdp_enabled |-> FALSE, enso_enabled |-> FALSE, goat_enabled |-> FALSE,
     twitter_skills |-> FALSE]

\* no template is being built
PromptIdle ==
    /\ prompt_agent = NoAgent
    /\ prompt = <<>>
    /\ prompt_array = <<>>
    /\ prompt_pc = "idle"

\* the agents initialize_agent may be given
PromptAgents ==
    [model : Models, system_prompt : PromptTexts, name : PromptTexts,
     ticker : PromptTexts, purpose : PromptTexts, personality : PromptTexts,
     principles : PromptTexts, prompt : BraceTexts, prompt_append : BraceTexts,
     cdp_enabled : BOOLEAN, enso_enabled : BOOLEAN, goat_enabled : BOOLEAN,
     twitter_skills : BOOLEAN]

PromptInit ==
    /\ prompt_agent \in PromptAgents
    /\ prompt = <<>>
    /\ prompt_array = <<>>
    /\ prompt_pc = "prompt"

\* ------------------------------------------------------- specifications
Init ==
    /\ TurnInit /\ CleanInit /\ AssemblyInit /\ WalletIdle /\ SkillsInit
    /\ CallInit /\ PromptIdle /\ ThreadsIdle /\ DbIdle
    /\ debug = FALSE     \* the default of execute_agent

Next ==
    \/ \E a \in Agents : UpdateAgent(a)
    \/ StartTurn
    \/ AgentExecutor
    \/ InitializeAgentLoad
    \/ InitializeAgentBuild
    \/ StreamNext
    \/ SaveMessage
    \/ ExceptHandler
    \/ StreamEnd
    \/ StreamFail
    \/ NextTurn

Spec == Init /\ [][Next]_vars

\* memory cleanup requests, served one at a time between the requests of the
\* admin layer and chat turns whose streams yield nothing
NextClean ==
    \/ clean_pc = "idle" /\ \E a \in Agents : UpdateAgent(a)
    \/ clean_pc = "idle" /\ StartTurn
    \/ AgentExecutor
    \/ InitializeAgentLoad
    \/ InitializeAgentBuild
    \/ StreamEnd
    \/ NextTurn
    \/ \E a \in Agents, c \in Chats : SaveCheckpoint(a, c)
    \/ \E a \in Agents, c \in Chats : SaveSkillData(a, c)
    \/ CleanAgentMemory
    \/ CleanMemory
    \/ CleanReturn

SpecClean == Init /\ [][NextClean]_vars

\* the end of the tool assembly of initialize_agent, for every assembled list
InitTools ==
    /\ TurnInit /\ CleanInit /\ AssembledInit /\ WalletIdle /\ SkillsInit
    /\ CallInit /\ PromptIdle /\ ThreadsIdle /\ DbIdle
    /\ debug = FALSE

NextTools == BindTools

SpecTools == InitTools /\ [][NextTools]_vars

\* one initialize_agent call, from the configuration to create_agent
InitBuild ==
    /\ TurnInit /\ CleanInit /\ BuildInit /\ WalletIdle /\ SkillsInit
    /\ CallInit /\ PromptIdle /\ ThreadsIdle /\ DbIdle
    /\ debug = FALSE

NextBuild ==
    \/ InitLlm
    \/ LoadSkills
    \/ BindTools

SpecBuild == InitBuild /\ [][NextBuild]_vars

InitWallet ==
    /\ TurnInit /\ CleanInit /\ AssemblyInit /\ WalletInit /\ SkillsInit
    /\ CallInit /\ PromptIdle /\ ThreadsIdle /\ DbIdle
    /\ debug = FALSE

\* no build or post-action is under way
Alone == \A t \in Tasks : task[t].pc = "idle"

WalletSteps ==
    \/ \E b \in Builds : BuildGetData(b)
    \/ \E b \in Builds : BuildAgentkit(b)
    \/ \E b \in Builds : BuildSetData(b)
    \/ \E b \in Builds : BuildToolkit(b)
    \/ AdminGet
    \/ AdminCreateAccount
    \/ AdminSave
    \/ AdminNotify

\* builds and post-actions of one agent, each called after the one before it
\* has ended
NextWalletSeq ==
    \/ Alone /\ \E b \in Builds : BuildStart(b)
    \/ Alone /\ AdminStart
    \/ WalletSteps

SpecWalletSeq == InitWallet /\ [][NextWalletSeq]_vars

\* builds and post-actions of one agent, interleaved at their await points
NextWallet ==
    \/ \E b \in Builds : BuildStart(b)
    \/ AdminStart
    \/ WalletSteps

SpecWallet == InitWallet /\ [][NextWallet]_vars

\* agent_executor calls for one agent, interleaved at their await points
\* with one another and with updates of its configuration
NextRace ==
    \/ \E a \in Agents : UpdateAgent(a)
    \/ \E c \in Callers : ExecutorCall(c)
    \/ \E c \in Callers : ExecutorLoad(c)
    \/ \E c \in Callers : ExecutorStamp(c)
    \/ \E c \in Callers : ExecutorBuild(c)

SpecRace == Init /\ [][NextRace]_vars

\* the stream of a chat turn that has just built the graph of its agent, in
\* either mode
InitSkillCalls ==
    /\ db_agents = [a \in Agents |-> IF a = "a1" THEN Row(1) ELSE NoRow]
    /\ chat_messages = <<InboundMessage>>
    /\ agents = [a \in Agents |->
                   IF a = "a1" THEN [gid |-> 1, built_from |-> 1] ELSE NoGraph]
    /\ agents_updated = [a \in Agents |-> IF a = "a1" THEN Stamp(1) ELSE NoStamp]
    /\ next_gid = 2
    /\ now = 2
    /\ pc = "stream"
    /\ cur = "a1"
    /\ start = 0
    /\ agent_row = Row(1)
    /\ init_row = Row(1)
    /\ ex_start = 0
    /\ executor = agents["a1"]
    /\ cold_start_cost = 2
    /\ last = 2
    /\ cached_tool_step = NoStep
    /\ resp = <<>>
    /\ events = <<>>
    /\ exc = ""
    /\ outcome = ""
    /\ error = ""
    /\ CleanInit /\ AssemblyInit /\ WalletIdle /\ SkillsInit /\ CallInit /\ PromptIdle /\ ThreadsIdle /\ DbIdle
    /\ debug \in BOOLEAN

\* the graph yields a tool-call message and then the results of the tools
NextSkillCalls ==
    \/ events = <<>> /\ Stream(BatchChunks)
    \/ cached_tool_step.held /\ Stream(ResultChunks)
    \/ SaveMessage
    \/ ExceptHandler
    \/ StreamEnd

SpecSkillCalls == InitSkillCalls /\ [][NextSkillCalls]_vars

\* get_skills calls made for the agents of one process
NextSkills ==
    \/ GetSkills
    \/ GetSkillsReturn

SpecSkills == Init /\ [][NextSkills]_vars

\* the prompt template of one initialize_agent call, for every agent
InitPrompt ==
    /\ TurnInit /\ CleanInit /\ AssemblyInit /\ WalletIdle /\ SkillsInit
    /\ CallInit
    /\ debug = FALSE
    /\ PromptInit /\ ThreadsIdle /\ DbIdle

NextPrompt ==
    \/ PromptBase
    \/ PromptTwitter
    \/ PromptAppend

SpecPrompt == InitPrompt /\ [][NextPrompt]_vars

\* turns and cleanups of agents whose thread ids overlap
ThreadScopes == {<<>>} \cup ThreadChats

NextThreads ==
    \/ \E a \in ThreadAgents, c \in ThreadChats : ThreadTurn(a, c)
    \/ \E a \in ThreadAgents, t \in ThreadScopes : ThreadClean(a, t)
    \/ CleanReturn

SpecThreads == Init /\ [][NextThreads]_vars

\* init_db called again and again at start-up
InitDbCalls ==
    /\ TurnInit /\ CleanInit /\ AssemblyInit /\ WalletIdle /\ SkillsInit
    /\ CallInit
    /\ debug = FALSE
    /\ PromptIdle /\ ThreadsIdle /\ DbInit

NextDb ==
    \/ InitDb
    \/ InitCheckpointer
    \/ InitSetup
    \/ InitEngine
    \/ InitMigrate
    \/ AppInitDb

SpecDb == InitDbCalls /\ [][NextDb]_vars

\* ================================================================ claims
Range(q) == {q[i] : i \in 1..Len(q)}

Front(q) == SubSeq(q, 1, Len(q) - 1)

\* a step of the turn itself (not of the admin layer)
TurnStep == pc' # pc

\* the cache holds a graph for the agent of the turn, and the updated_at of
\* its stored row is the one recorded when that graph was built
CacheFresh ==
    /\ db_agents[cur].exists
    /\ agents[cur] # NoGraph
    /\ agents_updated[cur] = Stamp(db_agents[cur].updated_at)

CacheStaleOrAbsent ==
    /\ db_agents[cur].exists
    /\ \/ agents[cur] = NoGraph
       \/ agents_updated[cur] # Stamp(db_agents[cur].updated_at)

\* C1: in every agent_executor call of a sequence of calls, when the stored
\* updated_at of the agent equals the timestamp recorded at the last build,
\* the call goes straight on without initialize_agent, hands out the very
\* graph object the cache holds, leaves the cache as it is, and reports a
\* cold start cost of 0.
C1_UnchangedConfigServesCachedGraph ==
    [][ (pc = "agent_executor" /\ TurnStep /\ CacheFresh)
          => /\ pc' = "stream"
             /\ executor' = agents[cur]
             /\ cold_start_cost' = 0
             /\ UNCHANGED <<agents, agents_updated, next_gid>> ]_vars

C1_Witness ==
    /\ pc = "stream"
    /\ events = <<>>
    /\ ~init_row.exists
    /\ executor # NoGraph
    /\ executor = agents[cur]
    /\ cold_start_cost = 0
    /\ executor.built_from = 2

\* C2: when the agent is absent from the cache, or its stored updated_at
\* differs from the recorded timestamp, agent_executor calls initialize_agent;
\* the graph it then returns is a new object (an identity no earlier graph
\* had), is the one now cached, was assembled from the configuration
\* initialize_agent loaded in this call (whose updated_at is the recorded one
\* and is no older than the row agent_executor read), and the cold start cost
\* reported is greater than 0.
C2_StaleOrAbsentRebuilds ==
    /\ [][ (pc = "agent_executor" /\ TurnStep /\ CacheStaleOrAbsent)
             => pc' = "initialize_agent" ]_vars
    /\ [][ (pc = "build" /\ pc' = "stream")
             => /\ executor'.gid >= next_gid
                /\ \A a \in Agents : executor' # agents[a]
                /\ executor' = agents'[cur]
                /\ executor'.built_from = init_row.updated_at
                /\ agents_updated'[cur] = Stamp(executor'.built_from)
                /\ executor'.built_from >= agent_row.updated_at
                /\ cold_start_cost' > 0 ]_vars
    /\ [](pc \in {"stream", "save", "except"} => executor = agents[cur])

C2_Witness ==
    /\ pc = "stream"
    /\ events = <<>>
    /\ init_row.exists
    /\ executor.gid > 1
    /\ executor.built_from = 2
    /\ cold_start_cost > 0

\* the messages a stream of events emits when each is processed without an
\* exception: one AGENT message per agent event whose message has text and
\* no tool calls, one SKILL message per tools event met while a batch is held
RECURSIVE Emitted(_, _)
Emitted(evs, held) ==
    IF evs = <<>> THEN <<>>
    ELSE LET c == Head(evs)
             m == c.messages[1]
         IN IF c.node = "agent" /\ Len(c.messages) > 0 /\ m.tool_calls # <<>>
            THEN Emitted(Tail(evs), TRUE)
            ELSE IF c.node = "agent" /\ Len(c.messages) > 0 /\ m.content # ""
            THEN <<[author_type |-> "AGENT", message |-> <<m.content>>]>>
                 \o Emitted(Tail(evs), held)
            ELSE IF c.node = "tools" /\ held
            THEN <<[author_type |-> "SKILL", message |-> <<>>]>>
                 \o Emitted(Tail(evs), FALSE)
            ELSE Emitted(Tail(evs), held)

Authors(q) ==
    [i \in 1..Len(q) |->
        [author_type |-> q[i].author_type, message |-> q[i].message]]

\* C3: once resp holds a message, execute_agent ends by returning, never by
\* raising.
C3_NeverRaisesAfterFirstMessage ==
    (pc = "done" /\ resp # <<>>) => outcome = "returned"

Rebuilt == init_row.exists

\* C6 as stated: after a rebuild exactly the first message of the returned
\* list carries the cold start cost; without a rebuild no message does.
C6_FirstReturnedCarriesColdStart ==
    (pc = "done" /\ outcome = "returned")
        => \A i \in 1..Len(resp) :
              (resp[i].cold_start_cost > 0) <=> (Rebuilt /\ i = 1)

\* C6 amended: after a rebuild the cold start cost is carried by the first
\* message of resp when that message is an AGENT or SKILL message, and by no
\* other message; the SYSTEM error message never carries it; without a
\* rebuild no message carries it.
C6_FirstEmittedCarriesColdStart ==
    \A i \in 1..Len(resp) :
        (resp[i].cold_start_cost > 0)
            <=> (Rebuilt /\ i = 1 /\ resp[i].author_type # "SYSTEM")

C6_Witness ==
    /\ pc = "done"
    /\ outcome = "returned"
    /\ Rebuilt
    /\ Len(resp) = 2
    /\ resp[1].cold_start_cost > 0
    /\ resp[2].author_type = "AGENT"

\* a step that emits an AGENT or SKILL message
Emits == Len(resp') = Len(resp) + 1 /\ pc' = "save"

\* C7 as stated: the time_cost of an emitted message is non-negative and is
\* the time since the previous emitted message, or since the start of the
\* turn for the first one.
C7_TimeCostSinceTurnStart ==
    [][ Emits
          => /\ resp'[Len(resp')].time_cost >= 0
             /\ last' = now'
             /\ resp'[Len(resp')].time_cost =
                   now' - (IF resp = <<>> THEN start ELSE last) ]_vars

\* C7 amended: the time_cost of an emitted message is non-negative and is
\* the time since the previous emitted message (last, which every emission
\* sets to its own time and nothing else changes), or, for the first one,
\* the time since the start of the turn less the cold start cost of the turn.
C7_TimeCostExcludesColdStart ==
    /\ [][ Emits
             => /\ resp'[Len(resp')].time_cost >= 0
                /\ last' = now'
                /\ resp'[Len(resp')].time_cost =
                      now' - (IF resp = <<>> THEN start + cold_start_cost
                                             ELSE last) ]_vars
    /\ [][ (pc \in {"stream", "save", "except"} /\ ~Emits) => last' = last ]_vars

C7_Witness ==
    /\ pc = "save"
    /\ Rebuilt
    /\ Len(resp) = 1
    /\ resp[1].cold_start_cost > 0
    /\ resp[1].time_cost > 0
    /\ resp[1].time_cost = now - start - resp[1].cold_start_cost

\* C8: every message of the returned list is a row of the chat message table.
C8_ReturnedMessagesArePersisted ==
    (pc = "done" /\ outcome = "returned")
        => \A i \in 1..Len(resp) : resp[i] \in Range(chat_messages)

\* C9: when the agent of the inbound message does not exist (and the write
\* of the inbound message did not itself fail), execute_agent raises the
\* not-found error and the turn has persisted no ChatMessage.
C9_NotFoundPersistsNothing ==
    (pc = "done" /\ ~db_agents[cur].exists /\ error # "SaveError")
        => (outcome = "raised" /\ error = "404" /\ chat_messages = <<>>)

\* C10: agent_executor called for an agent with no stored configuration
\* raises the 404 error at once, without calling initialize_agent, and
\* changes neither agents nor agents_updated.
C10_NotFoundLeavesCachesAlone ==
    [][ (pc = "agent_executor" /\ TurnStep /\ ~db_agents[cur].exists)
          => /\ pc' = "done"
             /\ outcome' = "raised"
             /\ error' = "404"
             /\ init_row' = NoRow
             /\ UNCHANGED <<agents, agents_updated, next_gid>> ]_vars

C10_Witness ==
    /\ pc = "done"
    /\ cur = "nobody"
    /\ error = "404"
    /\ agents["a1"] # NoGraph
    /\ agents["nobody"] = NoGraph
    /\ ~agents_updated["nobody"].has

\* ------------------------------------------------------- memory cleanup
\* a cleanup request is served in this step; clean_call' holds its arguments
\* and its result
CleanStep == clean_pc = "idle" /\ clean_pc' = "done"

\* clean_agent_memory has run to its end in this step
CleanRan(r) == CleanStep /\ clean_call'.result = r

IsBlank(s) == \A i \in 1..Len(s) : s[i] = " "

\* the rows of a table that belong to the threads of agent a
AgentRows(rows, a) == {r \in rows : \E c \in Chats : r = ThreadKey(a, c)}

\* C11: a successful clean_agent_memory call with clean_agent_memory = true
\* and a thread id t that is not blank removes from each of the three
\* checkpoint tables the rows whose thread key is {agent_id}-t and no other
\* row, whatever t is.
C11_ThreadScopedCleanupDeletesOnlyThatThread ==
    [][ ( /\ CleanRan("ok")
          /\ clean_call'.clean_agent_memory
          /\ ~IsBlank(clean_call'.thread_id) )
          => \A t \in CheckpointTables :
                checkpoint_rows'[t] =
                   checkpoint_rows[t] \
                      {ThreadKey(clean_call'.agent_id,
                                 Strip(clean_call'.thread_id))} ]_vars

C14_NothingRequestedIsRejected ==
    [][ ( /\ CleanStep
          /\ clean_call'.result # ""
          /\ ~clean_call'.clean_agent_memory
          /\ ~clean_call'.clean_skills_memory )
          => /\ clean_call'.result = "400"
             /\ UNCHANGED memory ]_vars

C14_Witness ==
    /\ clean_pc = "done"
    /\ clean_call.result = "400"
    /\ clean_call.agent_id = "a1"
    /\ ~clean_call.clean_agent_memory
    /\ ~clean_call.clean_skills_memory
    /\ checkpoint_rows["checkpoints"] # {}
    /\ agent_skill_data # {}

\* C15: a cleanup call changes neither agents nor agents_updated (nor builds
\* a graph), and an agent_executor call that finds the recorded updated_at
\* equal to the stored one returns the cached graph object without
\* initialize_agent, also when cleanup calls came before it.
C15_CleanupLeavesCachesAlone ==
    [][ /\ CleanStep => UNCHANGED <<agents, agents_updated, next_gid>>
        /\ (pc = "agent_executor" /\ TurnStep /\ CacheFresh)
              => /\ pc' = "stream"
                 /\ executor' = agents[cur]
                 /\ agents' = agents ]_vars

C15_Witness ==
    /\ clean_pc = "done"
    /\ clean_call.result = "ok"
    /\ clean_call.agent_id = "a1"
    /\ clean_call.clean_agent_memory
    /\ clean_call.clean_skills_memory
    /\ agents["a1"] # NoGraph
    /\ agents_updated["a1"] = Stamp(db_agents["a1"].updated_at)
    /\ db_agents["a1"].updated_at = MaxVersion

\* --------------------------------------------------------- tool assembly
Names(tools) == {tools[i].name : i \in 1..Len(tools)}

DistinctNames(tools) ==
    \A i, j \in 1..Len(tools) : tools[i].name = tools[j].name => i = j

\* the tool of the list that was put into it last under name n
LastRegistered(tools, n) ==
    tools[CHOOSE i \in 1..Len(tools) :
             /\ tools[i].name = n
             /\ \A j \in 1..Len(tools) : tools[j].name = n => j <= i]

\* of the assembled tools named n, the bound list holds the one registered
\* last and no other
OnlyLastSurvives(n) ==
    \E k \in 1..Len(bound_tools) :
        /\ bound_tools[k] = LastRegistered(assembled, n)
        /\ \A j \in 1..Len(bound_tools) : bound_tools[j].name = n => j = k

\* C16 as stated: the tool list passed to create_agent has pairwise distinct
\* names, and of the assembled tools that share a name exactly one is in it,
\* the one registered last.
C16_BoundToolsAreLastRegistered ==
    tools_pc = "bound"
       => /\ DistinctNames(bound_tools)
          /\ \A n \in Names(assembled) : OnlyLastSurvives(n)

\* C16: for a model that is not a deepseek model, the tool list passed to
\* create_agent has pairwise distinct names, holds no tool that was not
\* assembled, and of the assembled tools that share a name holds exactly
\* one, the one registered last; for a deepseek model the list is empty.
C16_BoundToolsAreLastRegisteredUnlessDeepseek ==
    tools_pc = "bound"
       => IF IsDeepseek(agent_model)
          THEN bound_tools = <<>>
          ELSE /\ DistinctNames(bound_tools)
               /\ Names(bound_tools) = Names(assembled)
               /\ \A n \in Names(assembled) : OnlyLastSurvives(n)

C16_Witness ==
    /\ tools_pc = "bound"
    /\ ~IsDeepseek(agent_model)
    /\ Len(assembled) = MaxTools
    /\ assembled[1].name = assembled[MaxTools].name
    /\ Len(bound_tools) = MaxTools - 1
    /\ bound_tools[1] = assembled[MaxTools]

C18_PersistedWalletNeverOverwritten ==
    [][ cdp_wallet_data.has => cdp_wallet_data' = cdp_wallet_data ]_vars

\* ------------------------------------------------------------ get_skills
ReturnedNames == {skills_call.tools[i].name : i \in 1..Len(skills_call.tools)}

\* C19: whatever the states of the skills and whatever is_private, the list
\* get_skills returns holds a tool for a skill exactly when the state of the
\* skill is public, or is private while is_private is true; it never holds a
\* tool for a disabled skill.
C19_ReturnedIffVisible ==
    (skills_pc = "done" /\ skills_call.outcome = "returned")
       => \A n \in SkillNames :
             /\ n \in ReturnedNames
                  <=> \/ skills_call.skill_states[n] = "public"
                      \/ /\ skills_call.skill_states[n] = "private"
                         /\ skills_call.is_private
             /\ skills_call.skill_states[n] = "disabled" => n \notin ReturnedNames

C19_Witness ==
    /\ skills_pc = "done"
    /\ skills_call.outcome = "returned"
    /\ ~skills_call.is_private
    /\ skills_call.skill_states["fetch_news"] = "disabled"
    /\ skills_call.skill_states["fetch_price"] = "private"
    /\ skills_call.skill_states["fetch_top_volume"] = "public"
    /\ ReturnedNames = {"fetch_top_volume"}

\* --------------------------------------------------- clean-memory endpoint
\* the endpoint has answered the request held in clean_call
Answered == clean_pc = "done" /\ clean_call.status # ""

\* nothing failed on the server while the request was served
NoFault == clean_call.fault = "none"

\* C20: the clean-memory endpoint answers 400 to a blank agent id and to a
\* request that asks for neither kind of cleanup, 404 to a request for an
\* agent that does not exist, and 500 only when something failed on the
\* server.
C20_EndpointStatusCodes ==
    Answered
       => /\ BlankId(clean_call.agent_id) => clean_call.status = "400"
          /\ ( /\ ~BlankId(clean_call.agent_id)
               /\ NoFault
               /\ ~db_agents[clean_call.agent_id].exists )
                => clean_call.status = "404"
          /\ ( /\ ~BlankId(clean_call.agent_id)
               /\ NoFault
               /\ db_agents[clean_call.agent_id].exists
               /\ NothingToClean(clean_call) )
                => clean_call.status = "400"
          /\ clean_call.status = "500" => ~NoFault

\* ------------------------------------------------- failed rebuild (C24)
\* C24: a rebuild that fails after the configuration was loaded changes
\* neither agents nor agents_updated: when initialize_agent has raised, the
\* agent's timestamp entry is still the one of its cached graph, and absent
\* when it has no cached graph.
C24_FailedRebuildChangesNeitherEntry ==
    (pc = "done" /\ error = "BuildError")
        => IF InCache(cur)
           THEN agents_updated[cur] = Stamp(agents[cur].built_from)
           ELSE agents_updated[cur] = NoStamp

\* ------------------------------------------------ held tool-call batch
\* the event execute_agent has just taken from the stream
StreamStep == pc = "stream" /\ events' # events

Chunk == events'[Len(events')]

\* the step appends a SKILL message to resp
EmitsSkill == Emits /\ resp'[Len(resp')].author_type = "SKILL"

\* C26: a tools event that arrives while no batch is held emits no message,
\* leaves the held batch, the timing baseline and the pending cold start cost
\* as they were, and the stream goes on.
C26_ToolsEventWithoutBatchIsDropped ==
    [][ (StreamStep /\ Chunk.node = "tools" /\ ~cached_tool_step.held)
          => /\ resp' = resp
             /\ cached_tool_step' = cached_tool_step
             /\ last' = last
             /\ cold_start_cost' = cold_start_cost
             /\ pc' = "stream" ]_vars

\* a tools event came first and was dropped, the event after it was emitted
C26_Witness ==
    /\ Len(events) = 2
    /\ events[1].node = "tools"
    /\ events[2].node = "agent"
    /\ Len(resp) = 1
    /\ resp[1].author_type = "AGENT"

\* C27: a tools event whose number of results differs from the number of
\* requests of the held batch is dropped: no SKILL message is emitted for it,
\* the batch stays held and the stream goes on.
C27_ResultCountMismatchIsDropped ==
    [][ ( /\ StreamStep
          /\ Chunk.node = "tools"
          /\ cached_tool_step.held
          /\ Len(Chunk.messages) # Len(cached_tool_step.tool_calls) )
          => /\ resp' = resp
             /\ pc' = "stream" ]_vars

\* the batch execute_agent holds after a run of events that raised nothing
RECURSIVE HeldAfter(_)
HeldAfter(evs) ==
    IF evs = <<>> THEN NoStep
    ELSE LET c == evs[Len(evs)]
         IN IF c.node = "agent" /\ c.messages # <<>>
                               /\ c.messages[1].tool_calls # <<>>
            THEN [held |-> TRUE, tool_calls |-> c.messages[1].tool_calls]
            ELSE IF c.node = "tools" THEN NoStep
            ELSE HeldAfter(Front(evs))

\* C28: an agent event whose message carries tool calls emits nothing, text
\* or not, and becomes the held batch; the batch held at any point of the
\* stream is that of the latest such event no tools event has followed; a
\* held batch is cleared in exactly the steps that emit a SKILL message.
C28_ToolCallBatchHeldUntilSkillMessage ==
    /\ [](pc \in {"stream", "save"} => cached_tool_step = HeldAfter(events))
    /\ [][ StreamStep
            => /\ ( /\ Chunk.node = "agent"
                    /\ Chunk.messages # <<>>
                    /\ Chunk.messages[1].tool_calls # <<>> )
                   => /\ resp' = resp
                      /\ cached_tool_step' =
                           [held |-> TRUE,
                            tool_calls |-> Chunk.messages[1].tool_calls]
               /\ (cached_tool_step.held /\ ~cached_tool_step'.held)
                     <=> EmitsSkill ]_vars

\* a message with text and tool calls was held, then answered by one SKILL
\* message that is the only message of the turn
C28_Witness ==
    /\ Len(events) = 2
    /\ events[1].node = "agent"
    /\ events[1].messages # <<>>
    /\ events[1].messages[1].tool_calls # <<>>
    /\ events[1].messages[1].content # ""
    /\ events[2].node = "tools"
    /\ Len(resp) = 1
    /\ resp[1].author_type = "SKILL"
    /\ cached_tool_step = NoStep

\* ---------------------------------------------------- failures of a build
\* create_agent was called: the build has made a graph, which is cached
GraphMade == tools_pc = "bound"

\* C21: a build for a model identifier that no LLM backend knows fails, so
\* only builds for known models make and cache a graph.
C21_UnknownModelMakesNoGraph ==
    GraphMade => agent_model \in Models

\* the tools of the skills of the configuration that were constructed
RECURSIVE Constructed(_, _)
Constructed(todo, tools) ==
    IF todo = <<>> THEN tools
    ELSE Constructed(Tail(todo),
                     IF Head(todo).constructs
                     THEN Append(tools, Tool(Head(todo).name, Len(tools) + 1))
                     ELSE tools)

\* C22: whichever skills fail to construct, the skill loaders finish, the
\* build makes a graph, and the tools it binds are those of all the skills
\* that were constructed.
C22_FailedSkillIsSkipped ==
    /\ tools_pc # "raised"
    /\ tools_pc \in {"assembled", "bound"}
          => assembled = Constructed(agent_skills, <<>>)
    /\ GraphMade
          => bound_tools = BoundTools(agent_model, Constructed(agent_skills, <<>>))

\* C23: a build whose wallet provisioning fails is not aborted: it goes on
\* to make its graph, without a wallet.
C23_FailedProvisioningKeepsBuilding ==
    [][ \A b \in Builds :
          ( /\ task[b].pc = "agentkit"
            /\ ~HasWallet(task[b].seen)
            /\ task'[b] # task[b]
            /\ provision_count' = provision_count )
             => /\ task'[b].pc = "toolkit"
                /\ ~HasWallet(task'[b].made) ]_vars

\* --------------------------------------------------- concurrent rebuilds
\* no agent_executor call is in flight
Quiescent == \A c \in Callers : exec_call[c].pc \in {"ready", "returned", "raised"}

\* C25: once no call is in flight, and even when no call has raised, the
\* cached graph of the agent was built from the configuration version that
\* agents_updated records for it.
C25_QuiescentCacheMatchesTimestamp ==
    ( /\ Quiescent
      /\ \A c \in Callers : exec_call[c].pc # "raised"
      /\ InCache("a1") )
        => agents_updated["a1"] = Stamp(agents["a1"].built_from)

\* --------------------------------------------------- skill-call records
\* the turn has emitted the SKILL message of its tools event
SkillEmitted ==
    /\ Len(events) = 2
    /\ events[2].node = "tools"
    /\ resp # <<>>
    /\ resp[1].author_type = "SKILL"

\* the requests held when the tools event came, and its results
Requests == events[1].messages[1].tool_calls
Results  == events[2].messages

\* the results that answer a held request
Matched ==
    SelectSeq(Results, LAMBDA m : \E i \in 1..Len(Requests) :
                                     Requests[i].id = m.tool_call_id)

\* the first held request a result answers
RequestOf(m) ==
    Requests[CHOOSE i \in 1..Len(Requests) :
                /\ Requests[i].id = m.tool_call_id
                /\ \A j \in 1..(i - 1) : Requests[j].id # m.tool_call_id]

\* C29: the SKILL message of a tools event holds one record for each result
\* that answers a held request, in the order of the results, and none for the
\* other results; the record carries the name and the arguments of the
\* request, and success=false with the content of the result as error message
\* when its status is error, success=true with a response otherwise.
C29_OneRecordPerMatchingResult ==
    SkillEmitted
       => LET recs == resp[1].skill_calls
          IN /\ Len(recs) = Len(Matched)
             /\ \A i \in 1..Len(recs) :
                   /\ recs[i].name = RequestOf(Matched[i]).name
                   /\ recs[i].parameters = RequestOf(Matched[i]).args
                   /\ IF Matched[i].status = "error"
                      THEN /\ recs[i].success = FALSE
                           /\ recs[i].error_message = Matched[i].content
                           /\ "response" \notin DOMAIN recs[i]
                      ELSE /\ recs[i].success = TRUE
                           /\ "response" \in DOMAIN recs[i]
                           /\ "error_message" \notin DOMAIN recs[i]
                           /\ debug => recs[i].response = Matched[i].content

\* two results, the first one answers no request, the second one reports an
\* error of the second request
C29_Witness ==
    /\ SkillEmitted
    /\ Len(Requests) = 2
    /\ Len(Results) = 2
    /\ Len(Matched) = 1
    /\ Results[2].status = "error"
    /\ Results[2].tool_call_id = 2
    /\ resp[1].skill_calls = <<[name |-> "n2", parameters |-> "args",
                                success |-> FALSE,
                                error_message |-> <<Run("word", 6)>>]>>

\* the first n characters of a text
RECURSIVE Prefix(_, _)
Prefix(text, n) ==
    IF text = <<>> \/ n = 0 THEN <<>>
    ELSE IF Head(text).n <= n
    THEN <<Head(text)>> \o Prefix(Tail(text), n - Head(text).n)
    ELSE <<Run(Head(text).kind, n)>>

\* C30: without debug a response of more than 100 characters is recorded as
\* its first 100 characters followed by the ellipsis; with debug every
\* response is recorded as it is.
C30_LongResponseCutAtWidth ==
    SkillEmitted
       => \A i \in 1..Len(resp[1].skill_calls) :
             Matched[i].status # "error"
                => resp[1].skill_calls[i].response =
                     IF ~debug /\ TextLen(Matched[i].content) > Width
                     THEN Prefix(Matched[i].content, Width)
                             \o <<Run("placeholder", PlaceholderLen)>>
                     ELSE Matched[i].content

\* --------------------------------------------- persisted prefix (C31)
\* the rows the turn has written after the inbound message
Persisted == IF chat_messages = <<>> THEN <<>> ELSE Tail(chat_messages)

\* C31: at every point of a turn the AGENT, SKILL and SYSTEM messages it has
\* persisted are a prefix of the messages it has emitted.
C31_PersistedIsPrefixOfEmitted ==
    /\ Len(Persisted) <= Len(resp)
    /\ Persisted = SubSeq(resp, 1, Len(Persisted))

\* ------------------------------------------- wallet persisted first (C32)
\* C32: a build goes on to its toolkit with a wallet it has provisioned only
\* in the step that writes that wallet to AgentData, and the wallet of a
\* cached graph is the one the build at its toolkit has read or written; so
\* a wallet whose write failed is in no cached graph.
C32_WalletPersistedBeforeToolkit ==
    [][ /\ \A b \in Builds :
             ( /\ task[b].pc # "toolkit"
               /\ task'[b].pc = "toolkit"
               /\ ~HasWallet(task'[b].seen) )
                => /\ HasWallet(task'[b].made)
                   /\ cdp_wallet_data' = task'[b].made
        /\ wallet_graph' # wallet_graph
             => \E b \in Builds :
                   /\ task[b].pc = "toolkit"
                   /\ wallet_graph' = IF HasWallet(task[b].seen)
                                      THEN task[b].seen ELSE task[b].made ]_vars

\* the write of the first wallet failed, the second wallet was written and
\* is the one of the cached graph
C32_Witness ==
    /\ persist_failures = 1
    /\ cdp_wallet_data = Wallet(2)
    /\ wallet_graph = Wallet(2)

\* the post-actions take a step
AdminStep == task'["admin"] # task["admin"]

\* C33: when the creation of the wallet account fails in the post-actions
\* (or the save of the created account does), the post-actions write no
\* wallet material, go on to the notification instead of leaving the
\* request, and a notification they then send carries the address "unknown"
C33_FailedAccountIsReportedUnknown ==
    [][ /\ ( /\ AdminStep
             /\ task["admin"].pc = "create_account"
             /\ ~HasWallet(task["admin"].seen)
             /\ provision_count' = provision_count )
           => /\ task'["admin"].pc = "notify_unknown"
              /\ cdp_wallet_data' = cdp_wallet_data
        /\ ( /\ AdminStep
             /\ task["admin"].pc = "notify_unknown" )
           => /\ cdp_wallet_data' = cdp_wallet_data
              /\ notification' # notification => notification' = Note(Unknown) ]_vars

C33_Witness ==
    /\ notification = Note(Unknown)
    /\ cdp_wallet_data = NoWallet
    /\ provision_count = 0

\* where the conversation messages go in the finished template
Placeholder == CHOOSE i \in 1..Len(prompt_array) : prompt_array[i].role = "placeholder"

\* the positions of the system messages that carry section s
Carrying(s) ==
    { i \in 1..Len(prompt_array) :
        /\ prompt_array[i].role = "system"
        /\ \E k \in 1..Len(prompt_array[i].content) :
              prompt_array[i].content[k].section = s }

\* the sections initialize_agent adds for this agent
Added ==
    {s \in {"twitter"} : prompt_agent.twitter_skills}
    \cup {s \in {"prompt_append"} : prompt_agent.prompt_append # <<>>}

\* C34: in the finished template of a deepseek agent the twitter section and
\* the prompt-append section stand before the placeholder of the conversation
\* and no system message follows it; for every other model both stand after it
C34_DeepseekSectionsBeforeMessages ==
    prompt_pc = "done" =>
        IF IsDeepseek(prompt_agent.model)
        THEN /\ \A s \in Added : \E i \in Carrying(s) : i < Placeholder
             /\ \A i \in 1..Len(prompt_array) :
                   i > Placeholder => prompt_array[i].role # "system"
        ELSE \A s \in Added : /\ Carrying(s) # {}
                              /\ \A i \in Carrying(s) : i > Placeholder

\* the place of each section in the order of the prompt; the base
\* instructions and the default guide share one place
Rank(s) ==
    CASE s = "header" -> 1
      [] s = "system_prompt" -> 2
      [] s = "name" -> 3
      [] s = "ticker" -> 4
      [] s = "newline" -> 5
      [] s = "purpose" -> 6
      [] s = "personality" -> 7
      [] s = "principles" -> 8
      [] s \in {"initial_rules", "cdp_guide"} -> 9
      [] s = "enso_guide" -> 10
      [] s = "goat_guide" -> 11

\* the section s is in the prompt, with this text
Has(s, text) == \E i \in 1..Len(prompt) : prompt[i] = Section(s, text)

In(s) == \E i \in 1..Len(prompt) : prompt[i].section = s

\* C35: the sections of agent_prompt come in one order, each at most once;
\* a section is there exactly when its input is set, with the text of the
\* input; the default guide is there only when there are no base instructions
C35_SectionsInFixedOrder ==
    prompt_pc \in {"twitter", "append", "done"} =>
        /\ \A i, j \in 1..Len(prompt) :
              i < j => Rank(prompt[i].section) < Rank(prompt[j].section)
        /\ \A f \in {"system_prompt", "name", "ticker", "purpose",
                     "personality", "principles"} :
              IF prompt_agent[f] # <<>> THEN Has(f, prompt_agent[f]) ELSE ~In(f)
        /\ IF prompt_agent.prompt # <<>>
           THEN Has("initial_rules", prompt_agent.prompt)
           ELSE ~In("initial_rules")
        /\ In("cdp_guide") <=> (prompt_agent.cdp_enabled /\ prompt_agent.prompt = <<>>)
        /\ In("enso_guide") <=> prompt_agent.enso_enabled
        /\ In("goat_guide") <=> prompt_agent.goat_enabled

C35_Witness ==
    /\ prompt_pc = "done"
    /\ prompt_agent.prompt # <<>>
    /\ prompt_agent.cdp_enabled
    /\ prompt_agent.goat_enabled
    /\ Len(prompt) = 11

\* C36: a call of agent_executor that has returned gives a graph built from
\* the configuration version its Agent.get read, or from a newer one
C36_ReturnedGraphNotOlderThanRead ==
    \A c \in Callers :
        exec_call[c].pc = "returned"
            => exec_call[c].graph.built_from >= exec_call[c].read

\* ------------------------------------------------------- thread identity
\* C37: a successful clean_agent_memory call for one agent, with a thread id
\* or none, leaves in each of the three checkpoint tables every row stored by
\* a turn of another agent
C37_CleanupNeverDeletesOtherAgentsRows ==
    [][ ( /\ clean_pc = "idle"
          /\ clean_pc' = "done"
          /\ clean_call'.result = "ok" )
          => \A x \in CheckpointTables : \A p \in thread_turns :
                ( /\ p[1] # clean_call'.agent_id
                  /\ ThreadId(p[1], p[2]) \in checkpoint_rows[x] )
                   => ThreadId(p[1], p[2]) \in checkpoint_rows'[x] ]_vars

\* C38: the first turn of an (agent, chat) pair finds no checkpointed memory
\* under its thread id: no other pair has the same thread id
C38_ThreadIdentityIsInjective ==
    [][ \A a \in ThreadAgents, c \in ThreadChats :
           ( /\ <<a, c>> \notin thread_turns
             /\ <<a, c>> \in thread_turns' )
              => ThreadId(a, c) \notin checkpoint_rows["checkpoints"] ]_vars

\* ------------------------------------------------------------- init_db
\* C40: with a database host and auto_migrate, an init_db call that returns
\* without raising leaves a checkpointer whose setup has run and an engine
\* whose migration has run, however many earlier calls failed; and once both
\* have run, no later call replaces the engine or the checkpointer
C40_SuccessfulInitMeansSetupAndMigration ==
    [][ /\ ( /\ init_call.host /\ init_call.auto_migrate
             /\ init_call.pc # "idle"
             /\ init_call'.pc = "idle"
             /\ init_call'.result = "ok" )
           => /\ langgraph_checkpointer'.ready
              /\ engine'.ready
        /\ ( langgraph_checkpointer.ready /\ engine.ready )
           => /\ engine' = engine
              /\ langgraph_checkpointer' = langgraph_checkpointer ]_vars

\* --------------------------------------------------- credentials of tools
\* C39: every tool a get_skills call returns carries the api_key that was
\* passed in that call
C39_ToolBoundToCallersCredential ==
    ( /\ skills_pc = "done"
      /\ skills_call.outcome = "returned" )
        => \A i \in 1..Len(skills_call.tools) :
              skills_call.tools[i].api_key = skills_call.api_key
====
